---------------------------- MODULE Spec2Model ----------------------------
(***************************************************************************)
(* The packaging and installation pipeline of create-foxglove-extension:   *)
(* src/src/extensions.ts (identity) and src/src/package.ts (manifest       *)
(* loading, prepublish hook, file collection, archive writing, install,    *)
(* publish).                                                               *)
(*                                                                         *)
(* Strings are sequences of one-character strings, so that the regular     *)
(* expressions, the case folding, the separators and the lengths of the    *)
(* source are computed and not assumed.  A path of the file system is a    *)
(* sequence of segments from the file system's root, a segment being a     *)
(* string.                                                                 *)
(***************************************************************************)
EXTENDS Integers, Sequences, FiniteSets, TLC

(***************************************************************************)
(* Characters.  Ascii lists the characters the model uses in code-unit     *)
(* order, which is the order Array.prototype.sort compares strings by.     *)
(***************************************************************************)
Ascii ==
  << " ", "!", "-", ".", "/", "0", "1", "2", "3", "4", "5", "6", "7", "8", "9",
     "@", "A", "B", "C", "D", "E", "F", "G", "H", "I", "J", "K", "L", "M",
     "N", "O", "P", "Q", "R", "S", "T", "U", "V", "W", "X", "Y", "Z",
     "\\", "_",
     "a", "b", "c", "d", "e", "f", "g", "h", "i", "j", "k", "l", "m",
     "n", "o", "p", "q", "r", "s", "t", "u", "v", "w", "x", "y", "z" >>

Ord(c) == IF c = "\n" THEN 0 ELSE CHOOSE i \in 1..Len(Ascii) : Ascii[i] = c

IsUpper(c) == c # "\n" /\ Ord(c) >= Ord("A") /\ Ord(c) <= Ord("Z")

IsLowerCh(c) == c # "\n" /\ Ord(c) >= Ord("a") /\ Ord(c) <= Ord("z")

IsDigit(c) == c # "\n" /\ Ord(c) >= Ord("0") /\ Ord(c) <= Ord("9")

\* The class \w of a JavaScript regular expression: [A-Za-z0-9_].
IsWordChar(c) == IsUpper(c) \/ IsLowerCh(c) \/ IsDigit(c) \/ c = "_"

\* The line terminators that "." of a JavaScript regular expression excludes
\* (of them the model's alphabet holds the line feed).
IsLineTerminator(c) == c = "\n"

LowerChar(c) == IF IsUpper(c) THEN Ascii[Ord(c) - Ord("A") + Ord("a")] ELSE c

\* String.prototype.toLowerCase
ToLowerCase(s) == [i \in 1..Len(s) |-> LowerChar(s[i])]

\* s.replace(/\W+/g, ""): every run of non-word characters is removed.
StripNonWord(s) == SelectSeq(s, IsWordChar)

\* The least and the greatest of a non-empty finite set of integers.
Least(S) == CHOOSE x \in S : \A y \in S : x <= y

Greatest(S) == CHOOSE x \in S : \A y \in S : x >= y

\* The index of the first occurrence of c in s, or 0.
IndexOf(s, c) ==
  IF \E i \in 1..Len(s) : s[i] = c
    THEN CHOOSE i \in 1..Len(s) : s[i] = c /\ \A j \in 1..(i - 1) : s[j] # c
    ELSE 0

\* The index of the first line terminator of s at or after i, or 0.
FirstLineTerminator(s, i) ==
  LET at == {j \in i..Len(s) : IsLineTerminator(s[j])}
  IN IF at = {} THEN 0 ELSE Least(at)

\* A value of a parsed JSON document, as far as the pipeline tells values
\* apart: a string, an absent field, null, a list, or a value of another
\* type (a number, a boolean, an object).
JStr(s) == [t |-> "str", s |-> s]

JUndef == [t |-> "undef", s |-> << >>]

JOther == [t |-> "other", s |-> << >>]

JNull == [t |-> "null", s |-> << >>]

\* v == undefined, which holds of undefined and of null; so does the test of
\* the ?? operator.
IsNullish(v) == v.t \in {"undef", "null"}

JList(l) == [t |-> "list", s |-> l]

(***************************************************************************)
(* src/src/extensions.ts                                                   *)
(***************************************************************************)

\* parsePackageName: /^@([^/]+)\/(.+)/.exec(name).  The first group is the
\* longest run without "/" after the "@", and must be followed by "/" (a run
\* that stops earlier is followed by a character that is no "/").  The second
\* group is greedy over characters that are no line terminators, with no
\* anchor at the end: it stops before the first line terminator, and must
\* hold at least one character.
parsePackageName(name) ==
  LET exec(slash, group2) ==
        IF Len(name) >= 1 /\ name[1] = "@" /\ slash >= 3 /\ Len(group2) >= 1
          THEN [namespace |-> JStr(SubSeq(name, 2, slash - 1)), name |-> group2]
          ELSE [namespace |-> JUndef, name |-> name]
      upToLineTerminator(rest) ==
        LET cut(lt) == IF lt = 0 THEN rest ELSE SubSeq(rest, 1, lt - 1)
        IN cut(FirstLineTerminator(rest, 1))
      after(slash) == IF slash = 0 THEN << >> ELSE SubSeq(name, slash + 1, Len(name))
  IN exec(IndexOf(name, "/"), upToLineTerminator(after(IndexOf(name, "/"))))

\* The outcome of a function that may throw: the value, or the error.
Ok(v) == [ok |-> TRUE, v |-> v, err |-> "none", at |-> << >>]

Err(e) == [ok |-> FALSE, v |-> << >>, err |-> e, at |-> << >>]

\* An error whose message names a path.
ErrAt(e, path) == [ok |-> FALSE, v |-> << >>, err |-> e, at |-> path]

\* publisher.toLowerCase().replace(/\W+/g, "")
NormalizePublisher(p) == StripNonWord(ToLowerCase(p))

\* getPackageId; pkgJson has the fields name, version, publisher (JSON values).
\* A publisher that is present and no string has no toLowerCase: a TypeError.
getPackageId(pkgJson) ==
  LET identified(pkgName, publisher) ==
        LET named(norm) == IF Len(norm) = 0 THEN Err("InvalidPublisher")
                           ELSE Ok(norm \o <<".">> \o pkgName.name)
        IN IF IsNullish(publisher) THEN Err("MissingPublisher")
           ELSE IF publisher.t # "str" THEN Err("TypeError")
           ELSE named(NormalizePublisher(publisher.s))
      parsed(pkgName) ==
        identified(pkgName, IF ~IsNullish(pkgJson.publisher) THEN pkgJson.publisher
                            ELSE pkgName.namespace)
  IN IF pkgJson.name.t # "str" THEN Err("MissingName")
     ELSE IF pkgJson.version.t # "str" THEN Err("MissingVersion")
     ELSE parsed(parsePackageName(pkgJson.name.s))

\* The longest directory name plus one (extensions.ts: dir.length >= 255).
MaxDirnameLength == 255

\* getPackageDirname
getPackageDirname(pkgJson) ==
  LET sized(dir) == IF Len(dir) >= MaxDirnameLength THEN Err("NameTooLong") ELSE Ok(dir)
      named(pkgId) == IF ~pkgId.ok THEN pkgId
                      ELSE sized(pkgId.v \o <<"-">> \o pkgJson.version.s)
  IN named(getPackageId(pkgJson))


(***************************************************************************)
(* State.                                                                  *)
(***************************************************************************)
VARIABLES
  sep,      \* path.sep of the host: "/" (posix) or "\\" (win32)
  cwd,      \* process.cwd(), a path of the file system
  fs,       \* the file system: path -> node, for the paths that exist
  now,      \* the wall clock
  proc,     \* the command in flight: its position and its locals
  result,   \* how the last command ended
  hist      \* what the commands did, recorded for the properties

vars == <<sep, cwd, fs, now, proc, result, hist>>

(***************************************************************************)
(* Node's path module.  On win32 both "/" and "\\" separate segments and   *)
(* results are rendered with "\\"; drive letters and the case-insensitive  *)
(* comparison of win32 are left out (every path of the model is rooted and *)
(* no two names differ in case only).                                      *)
(***************************************************************************)
IsSep(c) == c = "/" \/ (sep = "\\" /\ c = "\\")

\* The integers of a finite set in ascending order.
RECURSIVE Ascending(_)
Ascending(S) ==
  LET from(m) == <<m>> \o Ascending(S \ {m})
  IN IF S = {} THEN << >> ELSE from(Least(S))

\* The non-empty segments of a path string: the runs between separators, each
\* from the index it starts at to the index it ends at.
SplitSegs(s) ==
  LET between(starts, ends) == [k \in 1..Len(starts) |-> SubSeq(s, starts[k], ends[k])]
  IN between(Ascending({i \in 1..Len(s) :
                          ~IsSep(s[i]) /\ (i = 1 \/ IsSep(s[i - 1]))}),
             Ascending({i \in 1..Len(s) :
                          ~IsSep(s[i]) /\ (i = Len(s) \/ IsSep(s[i + 1]))}))

DOT == <<".">>

DOTDOT == <<".", ".">>

\* normalizeString of an absolute path: ".." at the root stays at the root.
RECURSIVE NormAbsFrom(_, _, _)
NormAbsFrom(segs, i, acc) ==
  IF i > Len(segs) THEN acc
  ELSE IF segs[i] = DOT THEN NormAbsFrom(segs, i + 1, acc)
  ELSE IF segs[i] = DOTDOT
    THEN NormAbsFrom(segs, i + 1,
                     IF acc = << >> THEN acc ELSE SubSeq(acc, 1, Len(acc) - 1))
    ELSE NormAbsFrom(segs, i + 1, Append(acc, segs[i]))

NormAbs(segs) == NormAbsFrom(segs, 1, << >>)

\* normalizeString of a relative path: leading ".." segments are kept.
RECURSIVE NormRelFrom(_, _, _)
NormRelFrom(segs, i, acc) ==
  IF i > Len(segs) THEN acc
  ELSE IF segs[i] = DOT THEN NormRelFrom(segs, i + 1, acc)
  ELSE IF segs[i] = DOTDOT
    THEN NormRelFrom(segs, i + 1,
                     IF acc # << >> /\ acc[Len(acc)] # DOTDOT
                       THEN SubSeq(acc, 1, Len(acc) - 1)
                       ELSE Append(acc, DOTDOT))
    ELSE NormRelFrom(segs, i + 1, Append(acc, segs[i]))

NormRel(segs) == NormRelFrom(segs, 1, << >>)

\* The segments joined by the host separator.
RECURSIVE Render(_)
Render(segs) ==
  IF segs = << >> THEN << >>
  ELSE IF Len(segs) = 1 THEN segs[1]
  ELSE segs[1] \o <<sep>> \o Render(Tail(segs))

IsAbsolute(s) == Len(s) > 0 /\ IsSep(s[1])

\* path.normalize
normalize(s) ==
  LET segments(abs, segs) == IF abs THEN NormAbs(segs) ELSE NormRel(segs)
      rendered(abs, trailing, body) ==
        IF Len(body) = 0
          THEN (IF abs THEN <<sep>> ELSE IF trailing THEN <<".", sep>> ELSE DOT)
          ELSE (IF abs THEN <<sep>> ELSE << >>) \o body
               \o (IF trailing THEN <<sep>> ELSE << >>)
  IN IF Len(s) = 0 THEN DOT
     ELSE rendered(IsAbsolute(s), IsSep(s[Len(s)]),
                   Render(segments(IsAbsolute(s), SplitSegs(s))))

\* path.join of two strings: the non-empty ones, joined by the separator and
\* normalized.
join(a, b) ==
  normalize(IF Len(a) = 0 THEN b ELSE IF Len(b) = 0 THEN a ELSE a \o <<sep>> \o b)

\* path.resolve, as a path of the file system: a relative string is resolved
\* against the working directory of the process at the time of the call.
Resolve(s) == NormAbs((IF IsAbsolute(s) THEN << >> ELSE cwd) \o SplitSegs(s))

RECURSIVE CommonPrefixLen(_, _, _)
CommonPrefixLen(a, b, n) ==
  IF n < Len(a) /\ n < Len(b) /\ a[n + 1] = b[n + 1]
    THEN CommonPrefixLen(a, b, n + 1) ELSE n

\* path.relative
relative(from, to) ==
  LET between(f, t) ==
        LET after(n) == Render([i \in 1..(Len(f) - n) |-> DOTDOT] \o SubSeq(t, n + 1, Len(t)))
        IN after(CommonPrefixLen(f, t, 0))
  IN between(Resolve(from), Resolve(to))

\* relPath.split(sep)[0]: the characters before the first host separator.
FirstPart(s) ==
  LET upTo(i) == IF i = 0 THEN s ELSE SubSeq(s, 1, i - 1) IN upTo(IndexOf(s, sep))

\* A check that takes every path to lie in the directory.
inDirectoryAlways(directory, pathname) == TRUE

\* inDirectory
inDirectory(directory, pathname) == FirstPart(relative(directory, pathname)) # DOTDOT


(***************************************************************************)
(* Names the source spells out.                                            *)
(***************************************************************************)
PACKAGE_JSON == <<"p", "a", "c", "k", "a", "g", "e", ".", "j", "s", "o", "n">>

README_MD == <<"R", "E", "A", "D", "M", "E", ".", "m", "d">>

CHANGELOG_MD == <<"C", "H", "A", "N", "G", "E", "L", "O", "G", ".", "m", "d">>

DIST == <<"d", "i", "s", "t">>

FOXE_EXT == <<".", "f", "o", "x", "e">>

SNAP == <<"s", "n", "a", "p">>

FOXGLOVE_STUDIO == <<"f", "o", "x", "g", "l", "o", "v", "e", "-", "s", "t", "u", "d", "i", "o">>

CURRENT == <<"c", "u", "r", "r", "e", "n", "t">>

DOT_FOXGLOVE_STUDIO == <<".", "f", "o", "x", "g", "l", "o", "v", "e", "-", "s", "t", "u", "d", "i", "o">>

EXTENSIONS == <<"e", "x", "t", "e", "n", "s", "i", "o", "n", "s">>


(***************************************************************************)
(* The file system.  A node is a directory or a regular file with its      *)
(* content and modification time.  The domain of fs is closed under        *)
(* parents; the root << >> always exists.                                  *)
(***************************************************************************)
DirNode == [kind |-> "dir", data |-> [t |-> "none", v |-> << >>], mtime |-> 0]

FileNode(d, t) == [kind |-> "file", data |-> d, mtime |-> t]

Blob(n) == [t |-> "blob", v |-> n]

IsPrefix(a, b) == Len(a) <= Len(b) /\ SubSeq(b, 1, Len(a)) = a

Parent(p) == SubSeq(p, 1, Len(p) - 1)

Exists(f, p) == p \in DOMAIN f

IsFileAt(f, p) == p \in DOMAIN f /\ f[p].kind = "file"

IsDirAt(f, p) == p \in DOMAIN f /\ f[p].kind = "dir"

\* Lexicographic order of strings by code unit (the default of sort()).
StrLess(a, b) ==
  LET n == IF Len(a) < Len(b) THEN Len(a) ELSE Len(b)
  IN IF \E i \in 1..n : a[i] # b[i]
       THEN LET d == CHOOSE i \in 1..n : a[i] # b[i] /\ \A j \in 1..(i - 1) : a[j] = b[j]
            IN Ord(a[d]) < Ord(b[d])
       ELSE Len(a) < Len(b)

\* The strings of a finite set in ascending order.
RECURSIVE SortSet(_)
SortSet(S) ==
  IF S = {} THEN << >>
  ELSE LET m == CHOOSE x \in S : \A y \in S \ {x} : StrLess(x, y)
       IN <<m>> \o SortSet(S \ {m})

\* Insertion of a string into a sorted sequence, after its equals.
RECURSIVE InsertSorted(_, _)
InsertSorted(sorted, x) ==
  IF sorted = << >> THEN <<x>>
  ELSE IF StrLess(x, sorted[1]) THEN <<x>> \o sorted
  ELSE <<sorted[1]>> \o InsertSorted(Tail(sorted), x)

\* Array.prototype.sort() of a sequence of strings (which may repeat).
RECURSIVE sortStrings(_)
sortStrings(q) == IF q = << >> THEN << >> ELSE InsertSorted(sortStrings(Tail(q)), q[1])

\* readdir: the names in a directory.  The order is the file system's; the
\* model takes the one order by name for every call.
readdir(f, dir) ==
  SortSet({q[Len(q)] : q \in {r \in DOMAIN f : Len(r) = Len(dir) + 1 /\ IsPrefix(dir, r)}})

\* rimraf: the path and everything below it are gone.
rimraf(f, p) == [q \in {r \in DOMAIN f : ~IsPrefix(p, r)} |-> f[q]]

\* Whether mkdir(p, {recursive: true}) succeeds: no prefix of p is a file.
CanMkdirP(f, p) == \A n \in 0..Len(p) : ~IsFileAt(f, SubSeq(p, 1, n))

\* mkdir(p, {recursive: true})
mkdirP(f, p) ==
  [q \in DOMAIN f \cup {SubSeq(p, 1, n) : n \in 0..Len(p)} |->
     IF q \in DOMAIN f THEN f[q] ELSE DirNode]

\* pathExists(filename, fileType)
pathExists(f, filename, fileType) ==
  LET stat(p) == CASE fileType = "File" -> IsFileAt(f, p)
                   [] fileType = "Directory" -> IsDirAt(f, p)
                   [] fileType = "FileOrDirectory" -> IsFileAt(f, p) \/ IsDirAt(f, p)
  IN stat(Resolve(filename))

\* isDirectory
isDirectory(f, pathname) == IsDirAt(f, Resolve(pathname))


(***************************************************************************)
(* src/src/package.ts: readManifest                                        *)
(***************************************************************************)

\* A parsed package.json: k is "obj" for an object, "null" for the JSON value
\* null; a file that JSON.parse rejects holds data that is no "json".
Doc(name, version, main, publisher, files, hook) ==
  [k |-> "obj", name |-> name, version |-> version, main |-> main,
   publisher |-> publisher, files |-> files, hook |-> hook,
   homepage |-> JUndef, license |-> JUndef,
   namespaceOrPublisher |-> JUndef, id |-> << >>]

\* A readManifest that returns the parsed document as it is.
readManifestUnvalidated(f, extensionPath) ==
  LET loaded(pkgPath, p) ==
        IF ~IsFileAt(f, p) \/ f[p].data.t # "json" \/ f[p].data.v.k = "null"
          THEN ErrAt("FailedToLoad", pkgPath)
          ELSE Ok(f[p].data.v)
      read(pkgPath) == loaded(pkgPath, Resolve(pkgPath))
  IN read(join(extensionPath, PACKAGE_JSON))

\* readManifest
readManifest(f, extensionPath) ==
  LET identified(manifest, publisher) ==
        LET checked(id) == IF ~id.ok THEN id
                           ELSE Ok([manifest EXCEPT !.namespaceOrPublisher = publisher,
                                                    !.id = id.v])
        IN IF IsNullish(publisher) \/ (publisher.t = "str" /\ Len(publisher.s) = 0)
             THEN Err("UnknownPublisher")
             ELSE checked(getPackageId(manifest))
      validated(manifest, pkgPath) ==
        IF manifest.k = "null" THEN Err("TypeError")
        ELSE IF manifest.name.t # "str" THEN ErrAt("MissingName", pkgPath)
        ELSE IF manifest.version.t # "str" THEN ErrAt("MissingVersion", pkgPath)
        ELSE IF manifest.main.t # "str" THEN ErrAt("MissingMain", pkgPath)
        ELSE IF ~IsNullish(manifest.files) /\ manifest.files.t # "list"
          THEN ErrAt("InvalidFiles", pkgPath)
        ELSE identified(manifest,
                        IF ~IsNullish(manifest.publisher) THEN manifest.publisher
                        ELSE parsePackageName(manifest.name.s).namespace)
      loaded(pkgPath, p) ==
        IF ~IsFileAt(f, p) \/ f[p].data.t # "json" THEN ErrAt("FailedToLoad", pkgPath)
        ELSE validated(f[p].data.v, pkgPath)
      read(pkgPath) == loaded(pkgPath, Resolve(pkgPath))
  IN read(join(extensionPath, PACKAGE_JSON))

(***************************************************************************)
(* src/src/package.ts: collect                                             *)
(***************************************************************************)

\* Set.prototype.add on the insertion-ordered set of strings.
SetAdd(q, x) == IF \E i \in 1..Len(q) : q[i] = x THEN q ELSE Append(q, x)

\* A loop over baseFiles that adds them without probing them.
collectBaseUnprobed(f, baseFiles, i, files) == Ok(baseFiles)

\* The loop over baseFiles.
RECURSIVE collectBase(_, _, _, _)
collectBase(f, baseFiles, i, files) ==
  IF i > Len(baseFiles) THEN Ok(files)
  ELSE IF ~pathExists(f, baseFiles[i], "File")
    THEN ErrAt("MissingRequiredFile", baseFiles[i])
    ELSE collectBase(f, baseFiles, i + 1, SetAdd(files, baseFiles[i]))

\* A loop over pkg.files that tests every entry and throws for the last one
\* that fails.
RECURSIVE collectFilesReportingLast(_, _, _, _, _)
collectFilesReportingLast(f, extensionPath, relFiles, i, files) ==
  LET tested(file, rest) ==
        IF ~rest.ok THEN rest
        ELSE IF ~inDirectory(extensionPath, file) THEN ErrAt("OutsideExtensionDir", file)
        ELSE IF ~pathExists(f, file, "FileOrDirectory")
          THEN ErrAt("MissingRequiredPath", file)
          ELSE Ok(SetAdd(rest.v, file))
  IN IF i > Len(relFiles) THEN Ok(files)
     ELSE tested(join(extensionPath, relFiles[i]),
                 collectFilesReportingLast(f, extensionPath, relFiles, i + 1, files))

\* The loop over pkg.files.
RECURSIVE collectFiles(_, _, _, _, _)
collectFiles(f, extensionPath, relFiles, i, files) ==
  LET added(file) ==
        IF ~inDirectory(extensionPath, file) THEN ErrAt("OutsideExtensionDir", file)
        ELSE IF ~pathExists(f, file, "FileOrDirectory")
          THEN ErrAt("MissingRequiredPath", file)
          ELSE collectFiles(f, extensionPath, relFiles, i + 1, SetAdd(files, file))
  IN IF i > Len(relFiles) THEN Ok(files)
     ELSE added(join(extensionPath, relFiles[i]))

\* collect
collect(f, extensionPath, pkg) ==
  LET sorted(all) ==
        IF ~all.ok THEN all
        ELSE Ok(sortStrings([i \in 1..Len(all.v) |-> relative(extensionPath, all.v[i])]))
      withDist(base, distDir) ==
        IF ~pathExists(f, distDir, "Directory")
          THEN ErrAt("MissingRequiredDirectory", distDir)
          ELSE Ok(SetAdd(base.v, distDir))
      withFiles(base) ==
        IF ~base.ok THEN base
        ELSE IF ~IsNullish(pkg.files)
          THEN collectFiles(f, extensionPath, pkg.files.s, 1, base.v)
          ELSE withDist(base, join(extensionPath, DIST))
  IN sorted(withFiles(collectBase(f, << join(extensionPath, PACKAGE_JSON),
                                        join(extensionPath, README_MD),
                                        join(extensionPath, CHANGELOG_MD),
                                        join(extensionPath, pkg.main.s) >>,
                                  1, << >>)))


(***************************************************************************)
(* src/src/package.ts: the archive                                         *)
(***************************************************************************)

\* MOD_DATE = new Date("2021-02-03"), as a day number; the clock of the model
\* counts on from it.
MOD_DATE == 20210203

\* JSZip's parentFolder: the name up to its last "/", or "" (a trailing "/"
\* of the name does not count, nor does a "/" that starts the name).
\* The index of the last occurrence of c in s at or before i, or 0.
LastIndexFrom(s, c, i) ==
  LET at == {j \in 1..i : s[j] = c}
  IN IF at = {} THEN 0 ELSE Greatest(at)

parentFolder(name) ==
  LET upTo(path, lastSlash) ==
        IF lastSlash > 1 THEN SubSeq(path, 1, lastSlash - 1) ELSE << >>
      of(path) == upTo(path, LastIndexFrom(path, "/", Len(path)))
  IN of(IF Len(name) > 0 /\ name[Len(name)] = "/"
          THEN SubSeq(name, 1, Len(name) - 1) ELSE name)

HasEntry(zip, name) == \E i \in 1..Len(zip) : zip[i].name = name

\* files[name] = object: a name already there keeps its place.
PutEntry(zip, e) ==
  IF HasEntry(zip, e.name)
    THEN [i \in 1..Len(zip) |-> IF zip[i].name = e.name THEN e ELSE zip[i]]
    ELSE Append(zip, e)

\* JSZip's folderAdd(name, createFolders = true): a folder not yet in the
\* archive is added with the options {dir: true, createFolders: true}, that is
\* without a date, and fileAdd then dates it new Date(): the time of the call.
RECURSIVE folderAdd(_, _, _)
folderAdd(zip, name, t) ==
  LET withParent(parent) == IF Len(parent) > 0 THEN folderAdd(zip, parent, t) ELSE zip
      added(dirName) ==
        IF HasEntry(zip, dirName) THEN zip
        ELSE PutEntry(withParent(parentFolder(dirName)),
                      [name |-> dirName, dir |-> TRUE, date |-> t,
                       data |-> [t |-> "none", v |-> << >>], src |-> << >>])
  IN added(name \o <<"/">>)

\* filename.replace(/\\/g, "/")
BackslashesToSlashes(s) == [i \in 1..Len(s) |-> IF s[i] = "\\" THEN "/" ELSE s[i]]

\* The date addFileToZip gives a file entry.
FileEntryDate(f, fullPath, t) == MOD_DATE

\* A name stored as the host spells it.
zipFilenameAsIs(filename) == filename

\* The name addFileToZip stores a file under.
zipFilename(filename) == BackslashesToSlashes(filename)

\* addFileToZip: zip.file(zipFilename, createReadStream(fullPath),
\* {createFolders: true, date: MOD_DATE}); t is the time of the call.  The
\* stream is read when the archive is generated; src remembers its file.
addFileToZip(f, zip, baseDir, filename, t) ==
  LET withParent(parent) == IF Len(parent) > 0 THEN folderAdd(zip, parent, t) ELSE zip
      stored(name, p) ==
        PutEntry(withParent(parentFolder(name)),
                 [name |-> name, dir |-> FALSE, date |-> FileEntryDate(f, p, t),
                  data |-> IF IsFileAt(f, p) THEN f[p].data
                           ELSE [t |-> "none", v |-> << >>],
                  src |-> p])
  IN stored(zipFilename(filename), Resolve(join(baseDir, filename)))

\* addDirToZip, and its loop over the entries of the directory.
RECURSIVE addDirToZip(_, _, _, _, _)
RECURSIVE addDirEntries(_, _, _, _, _, _)
addDirEntries(f, zip, baseDir, dirname, entries, t) ==
  LET added(entryPath, p) ==
        IF IsFileAt(f, p) THEN addFileToZip(f, zip, baseDir, entryPath, t)
        ELSE IF IsDirAt(f, p) THEN addDirToZip(f, zip, baseDir, entryPath, t)
        ELSE zip
      entry(entryPath) ==
        addDirEntries(f, added(entryPath, Resolve(join(baseDir, entryPath))),
                      baseDir, dirname, Tail(entries), t)
  IN IF entries = << >> THEN zip ELSE entry(join(dirname, entries[1]))

addDirToZip(f, zip, baseDir, dirname, t) ==
  addDirEntries(f, zip, baseDir, dirname, readdir(f, Resolve(join(baseDir, dirname))), t)

\* The loop of writeFoxe over the collected files.
RECURSIVE zipOfFiles(_, _, _, _, _)
zipOfFiles(f, zip, baseDir, files, t) ==
  IF files = << >> THEN zip
  ELSE zipOfFiles(f,
                  IF isDirectory(f, join(baseDir, files[1]))
                    THEN addDirToZip(f, zip, baseDir, files[1], t)
                    ELSE addFileToZip(f, zip, baseDir, files[1], t),
                  baseDir, Tail(files), t)

\* What the bytes of an archive are made of: per entry, in order, its name,
\* its kind, its date and its content.
ArchiveBytes(zip) ==
  [i \in 1..Len(zip) |->
     [name |-> zip[i].name, dir |-> zip[i].dir, date |-> zip[i].date,
      data |-> zip[i].data]]

(***************************************************************************)
(* src/src/package.ts: listExtensions, removeExtensionsById                *)
(***************************************************************************)

\* The functions src/src/log.ts exports.
logExports == {"info", "warn", "fatal"}

\* The catch block of listExtensions calls error(err), imported from ./log:
\* a call of a binding the module does not export throws a TypeError.
catchLogs == "error" \in logExports

\* The body of the try block for one entry: the record pushed, or the throw.
scanEntry(f, rootFolder, name) ==
  LET pushed(extensionRootPath, id) ==
        IF ~id.ok THEN id ELSE Ok([id |-> id.v, directory |-> extensionRootPath])
      parsed(extensionRootPath, p) ==
        IF ~IsFileAt(f, p) \/ f[p].data.t # "json" THEN Err("ReadOrParse")
        ELSE IF f[p].data.v.k = "null" THEN Err("TypeError")
        ELSE pushed(extensionRootPath, getPackageId(f[p].data.v))
      read(extensionRootPath) ==
        parsed(extensionRootPath, Resolve(join(extensionRootPath, PACKAGE_JSON)))
  IN read(join(rootFolder, name))

RECURSIVE listEntries(_, _, _, _)
listEntries(f, rootFolder, names, extensions) ==
  LET scanned(r) ==
        IF r.ok THEN listEntries(f, rootFolder, Tail(names), Append(extensions, r.v))
        ELSE IF catchLogs THEN listEntries(f, rootFolder, Tail(names), extensions)
        ELSE Err("TypeError")
  IN IF names = << >> THEN Ok(extensions)
     ELSE IF ~IsDirAt(f, Resolve(rootFolder) \o <<names[1]>>)
       THEN listEntries(f, rootFolder, Tail(names), extensions)
     ELSE scanned(scanEntry(f, rootFolder, names[1]))

\* listExtensions
listExtensions(f, rootFolder) ==
  IF ~pathExists(f, rootFolder, "Directory") THEN Ok(<< >>)
  ELSE listEntries(f, rootFolder, readdir(f, Resolve(rootFolder)), << >>)

\* A removal that goes by the name of the directory: "<id>-<version>".
removesExtensionByDirname(ext, id) ==
  LET named(segs) == ext.id = id /\ IsPrefix(id \o <<"-">>, segs[Len(segs)])
  IN named(SplitSegs(ext.directory))

\* Whether removeExtensionsById removes the extension ext when asked for id.
removesExtension(ext, id) == ext.id = id

\* The loop of removeExtensionsById: the file system after it.
RECURSIVE removeMatching(_, _, _)
removeMatching(f, extensions, id) ==
  IF extensions = << >> THEN f
  ELSE removeMatching(IF removesExtension(extensions[1], id)
                        THEN rimraf(f, Resolve(extensions[1].directory)) ELSE f,
                      Tail(extensions), id)

\* removeExtensionsById: the file system after it, or the error.
removeExtensionsById(f, rootFolder, id) ==
  LET removed(extensions) ==
        IF ~extensions.ok THEN extensions ELSE Ok(removeMatching(f, extensions.v, id))
  IN removed(listExtensions(f, rootFolder))

(***************************************************************************)
(* src/src/package.ts: copyFiles                                           *)
(***************************************************************************)

\* ncp(source, dest, {stopOnErr: true}) succeeds when the source exists, the
\* parent of the destination is a directory (ncp makes no parents) and no
\* file would replace a directory or a directory a file.
canCopy(f, src, dst) ==
  /\ Exists(f, src)
  /\ Len(dst) > 0 => IsDirAt(f, Parent(dst))
  /\ \A q \in DOMAIN f :
       IsPrefix(src, q) =>
         LET target == dst \o SubSeq(q, Len(src) + 1, Len(q))
         IN Exists(f, target) => f[target].kind = f[q].kind

\* The file system after ncp copied src to dst at time t.
copyTree(f, src, dst, t) ==
  LET under == {q \in DOMAIN f : IsPrefix(src, q)}
      targetOf(q) == dst \o SubSeq(q, Len(src) + 1, Len(q))
      new == {targetOf(q) : q \in under}
      sourceOf(r) == CHOOSE q \in under : targetOf(q) = r
  IN [r \in DOMAIN f \cup new |->
        IF r \in new
          THEN (IF f[sourceOf(r)].kind = "dir" THEN DirNode
                ELSE FileNode(f[sourceOf(r)].data, t))
          ELSE f[r]]


(***************************************************************************)
(* The commands.  A command runs from await to await: Start, then          *)
(* readManifest, prepublish, collect, and writeFoxe (packageCommand) or    *)
(* install: removeExtensionsById, mkdir, one ncp per collected file        *)
(* (installCommand).  Commands run one at a time.                          *)
(***************************************************************************)

\* os.homedir()
homedir == <<"/", "h">>

\* The directory the shell starts the process in.
ShellDir == << <<"w">> >>

\* The package root of the model.
PkgRoot == << <<"w">>, <<"p">> >>

NoDoc == Doc(JUndef, JUndef, JUndef, JUndef, JUndef, FALSE)

\* The options of publishCommand the caller left out.
NoPublishOptions ==
  [foxe |-> JUndef, version |-> JUndef, readme |-> JUndef, changelog |-> JUndef]

IdleProc ==
  [pc |-> "idle", op |-> "none", cwdOpt |-> JUndef, packagePath |-> JUndef,
   options |-> NoPublishOptions,
   extensionPath |-> << >>, pkg |-> NoDoc, files |-> << >>,
   rootFolder |-> << >>, dirName |-> << >>, destDir |-> << >>, i |-> 0]

\* What the command in flight has done and seen so far, the file system it
\* found and the package root its extensionPath named when it started.
NoEffects ==
  [hookRan |-> FALSE, hookExit |-> "none", removed |-> {}, created |-> {},
   archives |-> {}, collected |-> FALSE, missingBase |-> << >>, escaping |-> FALSE,
   printed |-> FALSE, failedAt |-> 0, stream |-> "none", before |-> << >>,
   pkgRoot |-> << >>]

NoResult ==
  [op |-> "none", ok |-> FALSE, err |-> "none", at |-> << >>, pkgRoot |-> << >>,
   explicitOut |-> FALSE, pkg |-> NoDoc, dirName |-> << >>, rootFolder |-> << >>,
   out |-> << >>, archive |-> << >>, sources |-> << >>, files |-> << >>,
   value |-> << >>, effects |-> NoEffects]

\* The number of commands a behaviour runs.
MaxRuns == 2

\* process.cwd() as a string.
cwdString == <<sep>> \o Render(cwd)

\* The base files that are no regular files, in the order collect probes them.
MissingBaseFiles(f, extensionPath, pkg) ==
  SelectSeq(<< join(extensionPath, PACKAGE_JSON), join(extensionPath, README_MD),
               join(extensionPath, CHANGELOG_MD), join(extensionPath, pkg.main.s) >>,
            LAMBDA file : ~pathExists(f, file, "File"))

\* Whether an entry of pkg.files lies, relative to the package root, behind a
\* leading ".." segment.
HasEscapingEntry(extensionPath, pkg) ==
  LET escapes(segs) == Len(segs) > 0 /\ segs[1] = DOTDOT
  IN /\ pkg.files.t = "list"
     /\ \E i \in 1..Len(pkg.files.s) :
          escapes(SplitSegs(relative(extensionPath, join(extensionPath, pkg.files.s[i]))))

\* What every outcome of the command in flight records.
Outcome(ok, e) ==
  [NoResult EXCEPT !.op = proc.op, !.ok = ok, !.err = e.err, !.at = e.at,
                   !.pkgRoot = hist.cur.pkgRoot,
                   !.explicitOut = (proc.packagePath.t = "str"),
                   !.pkg = proc.pkg, !.files = proc.files,
                   !.dirName = proc.dirName, !.rootFolder = proc.rootFolder]

\* The command ends with outcome r, having had the effects cur: the outcome
\* replaces the previous one.
Finish(r, cur) ==
  /\ result' = [r EXCEPT !.effects = cur]
  /\ proc' = IdleProc
  /\ hist' = [hist EXCEPT !.prev = result, !.cur = cur]

Fail(e) == Finish(Outcome(FALSE, e), hist.cur)

\* packageCommand(options) or installCommand(options) is called, later than
\* whatever happened before.
Start(op, cwdOpt, packagePath) ==
  /\ proc.pc = "idle"
  /\ hist.runs < MaxRuns
  /\ proc' = [IdleProc EXCEPT !.pc = "readManifest", !.op = op, !.cwdOpt = cwdOpt,
                              !.packagePath = packagePath,
                              !.extensionPath =
                                 IF cwdOpt.t = "str" THEN cwdOpt.s ELSE cwdString]
  /\ hist' = [hist EXCEPT !.runs = @ + 1,
                          !.cur = [NoEffects EXCEPT
                                     !.before = fs,
                                     !.pkgRoot = Resolve(proc'.extensionPath)]]
  /\ now' = now + 1
  /\ UNCHANGED <<sep, cwd, fs, result>>

\* await readManifest(extensionPath)
ReadManifest ==
  /\ proc.pc = "readManifest"
  /\ LET recorded(r, cur) ==
           IF r.ok
             THEN /\ proc' = [proc EXCEPT
                                !.pc = IF proc.op = "publish" THEN "publish"
                                       ELSE "prepublish",
                                !.pkg = r.v]
                  /\ hist' = [hist EXCEPT !.cur = cur]
                  /\ UNCHANGED result
             ELSE Finish(Outcome(FALSE, r), cur)
         read(r, pkgPath) ==
           recorded(r, [hist.cur EXCEPT
                          !.missingBase =
                             IF r.ok THEN MissingBaseFiles(fs, proc.extensionPath, r.v)
                             ELSE IF ~pathExists(fs, pkgPath, "File") THEN <<pkgPath>>
                             ELSE << >>])
     IN read(readManifest(fs, proc.extensionPath), join(proc.extensionPath, PACKAGE_JSON))
  /\ UNCHANGED <<sep, cwd, fs, now>>

\* What a successful build may leave behind: the entry artifact.
BuildOutputs(f, extensionPath, pkg) ==
  LET written(main, withDirs) ==
        IF Exists(withDirs, main) \/ ~IsDirAt(withDirs, Parent(main)) THEN withDirs
        ELSE [q \in DOMAIN withDirs \cup {main} |->
                IF q = main THEN FileNode(Blob(1), now) ELSE withDirs[q]]
      built(main) ==
        written(main, IF CanMkdirP(f, Parent(main)) THEN mkdirP(f, Parent(main)) ELSE f)
  IN built(Resolve(join(extensionPath, pkg.main.s)))

\* The event a spawned child ends with: "exit" with code 0, with another code
\* or with null (a child killed by a signal), or "error" (it could not be
\* started; no "exit" follows).
ChildEvents == {"0", "1", "null", "error"}

\* The exit listener of a child that resolves whatever the code.
hookSettlesOnAnyExit(event) ==
  IF event = "error" THEN Err("HookSpawnError") ELSE Ok(<< >>)

\* Listeners that reject without the exit code in the message.
hookSettlesWithoutCode(event) ==
  IF event = "error" THEN Err("HookSpawnError")
  ELSE IF event = "0" THEN Ok(<< >>)
  ELSE Err("HookFailed")

\* The listeners of the child: how the promise of prepublish settles on the
\* event.  The message of the rejection carries `${code ?? "<null>"}`.
hookSettles(event) ==
  IF event = "error" THEN Err("HookSpawnError")
  ELSE IF event = "0" THEN Ok(<< >>)
  ELSE ErrAt("HookFailed",
             IF event = "null" THEN <<"<", "n", "u", "l", "l", ">">> ELSE <<event>>)

\* await prepublish(extensionPath, pkg): without the script nothing is spawned;
\* with it the promise settles on the child's event.
Prepublish ==
  /\ proc.pc = "prepublish"
  /\ IF ~proc.pkg.hook
       THEN /\ proc' = [proc EXCEPT !.pc = "collect"]
            /\ UNCHANGED <<fs, result, hist>>
       ELSE \E event \in ChildEvents :
              LET settled(r, cur) ==
                    IF r.ok
                      THEN /\ proc' = [proc EXCEPT !.pc = "collect"]
                           /\ hist' = [hist EXCEPT !.cur = cur]
                           /\ \E built \in BOOLEAN :
                                fs' = IF built
                                        THEN BuildOutputs(fs, proc.extensionPath, proc.pkg)
                                        ELSE fs
                           /\ UNCHANGED result
                      ELSE /\ Finish(Outcome(FALSE, r), cur)
                           /\ UNCHANGED fs
              IN settled(hookSettles(event),
                         [hist.cur EXCEPT !.hookRan = (event # "error"),
                                          !.hookExit = event])
  /\ UNCHANGED <<sep, cwd, now>>

\* await collect(extensionPath, pkg)
Collect ==
  /\ proc.pc = "collect"
  /\ LET collected(r, cur) ==
           IF r.ok
             THEN /\ proc' = [proc EXCEPT
                                !.pc = IF proc.op = "package" THEN "writeFoxe" ELSE "install",
                                !.files = r.v]
                  /\ hist' = [hist EXCEPT !.cur = cur]
                  /\ UNCHANGED result
             ELSE Finish(Outcome(FALSE, r), cur)
     IN collected(collect(fs, proc.extensionPath, proc.pkg),
                  [hist.cur EXCEPT
                     !.collected = TRUE,
                     !.missingBase = MissingBaseFiles(fs, proc.extensionPath, proc.pkg),
                     !.escaping = HasEscapingEntry(proc.extensionPath, proc.pkg)])
  /\ UNCHANGED <<sep, cwd, fs, now>>

\* The content read from the stream of an entry whose file is the file the
\* archive is being written to: what it held, or whatever the concurrent
\* write leaves to read.
Torn == [t |-> "torn", v |-> << >>]

\* What the streams of writeFoxe can emit last: "finish" of the write stream,
\* "error" of the write stream, or "error" of the stream the archive is
\* generated from (a read stream of addFileToZip that failed).
StreamEvents == {"finish", "writeError", "readError"}

\* How the promise of writeFoxe settles on the event. pipe returns the write
\* stream, so reject and resolve listen on the write stream only; pipe does
\* not forward the errors of its source, and an "error" emitted on a stream
\* without a listener is thrown: the process ends on the uncaught exception
\* with the promise still pending.
streamSettles(event) ==
  CASE event = "finish" -> "resolve"
    [] event = "writeError" -> "reject"
    [] event = "readError" -> "uncaught"

\* A packagePath that is the default one whatever the caller gave.
packagePathOfIgnoringOptions(options, extensionPath, pkg) ==
  LET named(dirname) ==
        IF ~dirname.ok THEN dirname
        ELSE Ok(normalize(join(extensionPath, dirname.v \o FOXE_EXT)))
  IN named(getPackageDirname(pkg))

\* packagePath of packageCommand: the caller's, or the default, normalized.
packagePathOf(options, extensionPath, pkg) ==
  LET named(dirname) ==
        IF ~dirname.ok THEN dirname
        ELSE Ok(normalize(join(extensionPath, dirname.v \o FOXE_EXT)))
  IN IF options.t = "str" THEN Ok(normalize(options.s))
     ELSE named(getPackageDirname(pkg))

\* The rest of packageCommand: the output path, then await writeFoxe.  The
\* write stream fails when the output cannot be created.
WriteFoxe ==
  /\ proc.pc = "writeFoxe"
  /\ \E event \in StreamEvents :
       LET stored(out, zip, bytes) ==
             /\ fs' = [q \in DOMAIN fs \cup {out} |->
                         IF q = out THEN FileNode([t |-> "foxe", v |-> bytes], now)
                         ELSE fs[q]]
             /\ Finish([Outcome(TRUE, Ok(<< >>)) EXCEPT
                          !.out = out, !.archive = bytes,
                          !.sources = [i \in 1..Len(zip) |-> zip[i].src]],
                       [hist.cur EXCEPT !.archives = @ \cup {out}])
           cut(packagePath, out, zip) ==
             \E k \in {i \in 1..Len(zip) : ~zip[i].dir} :
               /\ fs' = [q \in DOMAIN fs \cup {out} |->
                           IF q = out
                             THEN FileNode([t |-> "foxe",
                                            v |-> ArchiveBytes(SubSeq(zip, 1, k - 1))], now)
                             ELSE fs[q]]
               /\ Finish(Outcome(FALSE, ErrAt("UncaughtException", packagePath)),
                         [hist.cur EXCEPT !.archives = @ \cup {out}, !.stream = "read"])
           generated(packagePath, out, zip) ==
             IF streamSettles(event) = "uncaught" THEN cut(packagePath, out, zip)
             ELSE \E torn \in {b \in BOOLEAN : b => \E i \in 1..Len(zip) : zip[i].src = out} :
                    stored(out, zip,
                           ArchiveBytes([i \in 1..Len(zip) |->
                                           IF torn /\ zip[i].src = out
                                             THEN [zip[i] EXCEPT !.data = Torn] ELSE zip[i]]))
           written(packagePath, out) ==
             IF \/ Len(out) = 0 \/ ~IsDirAt(fs, Parent(out)) \/ IsDirAt(fs, out)
                \/ streamSettles(event) = "reject"
               THEN /\ Finish(Outcome(FALSE, ErrAt("ArchiveWriteError", packagePath)),
                              [hist.cur EXCEPT !.stream = "write"])
                    /\ UNCHANGED fs
               ELSE generated(packagePath, out,
                              zipOfFiles(fs, << >>, proc.extensionPath, proc.files, now))
           to(packagePath) ==
             IF ~packagePath.ok THEN Fail(packagePath) /\ UNCHANGED fs
             ELSE written(packagePath.v, Resolve(packagePath.v))
       IN to(packagePathOf(proc.packagePath, proc.extensionPath, proc.pkg))
  /\ UNCHANGED <<sep, cwd, now>>

\* The extensions root install selects: the snap application's, if its
\* directory exists, or the default one.
targetRootFolder(f) ==
  LET chosen(snapAppDir) ==
        IF isDirectory(f, snapAppDir)
          THEN join(join(snapAppDir, DOT_FOXGLOVE_STUDIO), EXTENSIONS)
          ELSE join(join(homedir, DOT_FOXGLOVE_STUDIO), EXTENSIONS)
  IN chosen(join(join(join(homedir, SNAP), FOXGLOVE_STUDIO), CURRENT))

\* install, up to copyFiles: process.chdir, the directory name and the id, the
\* choice of the root, await removeExtensionsById.
InstallRemove ==
  /\ proc.pc = "install"
  /\ cwd' = Resolve(proc.extensionPath)
  /\ LET removed(dirName, rootFolder, after) ==
           IF ~after.ok
             THEN /\ Finish([Outcome(FALSE, after) EXCEPT
                               !.dirName = dirName.v, !.rootFolder = rootFolder],
                            hist.cur)
                  /\ UNCHANGED fs
             ELSE /\ fs' = after.v
                  /\ proc' = [proc EXCEPT !.pc = "mkdir", !.dirName = dirName.v,
                                          !.rootFolder = rootFolder,
                                          !.destDir = join(rootFolder, dirName.v)]
                  /\ hist' = [hist EXCEPT
                                !.cur.removed = @ \cup (DOMAIN fs \ DOMAIN after.v)]
                  /\ UNCHANGED result
         named(dirName, id, rootFolder) ==
           IF ~dirName.ok THEN Fail(dirName) /\ UNCHANGED fs
           ELSE IF ~id.ok THEN Fail(id) /\ UNCHANGED fs
           ELSE removed(dirName, rootFolder, removeExtensionsById(fs, rootFolder, id.v))
     IN named(getPackageDirname(proc.pkg), getPackageId(proc.pkg), targetRootFolder(fs))
  /\ UNCHANGED <<sep, now>>

\* copyFiles: await mkdir(destDir, {recursive: true})
CopyMkdir ==
  /\ proc.pc = "mkdir"
  /\ LET made(dest) ==
           IF ~CanMkdirP(fs, dest)
             THEN Fail(ErrAt("MkdirError", proc.destDir)) /\ UNCHANGED fs
             ELSE /\ fs' = mkdirP(fs, dest)
                  /\ proc' = [proc EXCEPT !.pc = "copy", !.i = 1]
                  /\ hist' = [hist EXCEPT !.cur.created = @ \cup (DOMAIN fs' \ DOMAIN fs)]
                  /\ UNCHANGED result
     IN made(Resolve(proc.destDir))
  /\ UNCHANGED <<sep, cwd, now>>

\* A loop that goes on to the next file whether or not the copy failed.
copyStepIgnoringErrors(copied, i, n) == IF i < n THEN "next" ELSE "return"

\* The loop of copyFiles after await cpR of file i of n: a copy that failed
\* throws out of the loop, the last copy returns.
copyStep(copied, i, n) ==
  IF ~copied THEN "throw" ELSE IF i < n THEN "next" ELSE "return"

\* copyFiles: await cpR(file, target, {stopOnErr: true}) for the next file.
\* The copy fails when ncp cannot make it, or on an input/output error of the
\* host.
CopyFile ==
  /\ proc.pc = "copy"
  /\ \E io \in {"ok", "fails"} :
       LET stepped(step, copied, cur, target) ==
             /\ fs' = copied
             /\ IF step = "throw"
                  THEN Finish(Outcome(FALSE, ErrAt("CopyError", target)), cur)
                  ELSE IF step = "next"
                    THEN /\ proc' = [proc EXCEPT !.i = @ + 1]
                         /\ hist' = [hist EXCEPT !.cur = cur]
                         /\ UNCHANGED result
                    ELSE Finish(Outcome(TRUE, Ok(<< >>)), cur)
           copy(copied, target) ==
             stepped(copyStep(TRUE, proc.i, Len(proc.files)), copied,
                     [hist.cur EXCEPT
                        !.created = @ \cup {q \in DOMAIN copied :
                                              q \notin DOMAIN fs \/ copied[q] # fs[q]}],
                     target)
           cpR(target, src, dst) ==
             IF io = "fails" \/ ~canCopy(fs, src, dst)
               THEN stepped(copyStep(FALSE, proc.i, Len(proc.files)), fs,
                            [hist.cur EXCEPT !.failedAt = IF @ = 0 THEN proc.i ELSE @],
                            target)
               ELSE copy(copyTree(fs, src, dst, now), target)
           to(file, target) == cpR(target, Resolve(file), Resolve(target))
       IN to(proc.files[proc.i], join(proc.destDir, proc.files[proc.i]))
  /\ UNCHANGED <<sep, cwd, now>>

\* What githubRawFile's fetch of the raw file may give: content, no content,
\* or a failure of the request.
FetchOutcomes == {"content", "empty", "throws"}

GITHUB_PREFIX == <<"h", "t", "t", "p", "s", ":", "/", "/", "g", "i", "t", "h", "u", "b", ".", "c", "o", "m", "/">>

RAW_PREFIX == <<"h", "t", "t", "p", "s", ":", "/", "/", "r", "a", "w", ".", "g", "i", "t", "h", "u", "b", "u", "s", "e", "r", "c", "o", "n", "t", "e", "n", "t", ".", "c", "o", "m", "/">>

\* githubRawFile: /^https:\/\/github\.com\/([^/]+)\/([^/?]+)$/.exec(homepage),
\* then the URL of the file on the main branch if the fetch gives content.
githubRawFile(homepage, filename, fetched) ==
  LET url(org, project) ==
        IF fetched = "content"
          THEN JStr(RAW_PREFIX \o org \o <<"/">> \o project \o <<"/", "m", "a", "i", "n", "/">>
                    \o filename)
          ELSE JUndef
      matched(rest, slash) ==
        IF slash < 2 \/ slash = Len(rest) THEN JUndef
        ELSE IF \E i \in (slash + 1)..Len(rest) : rest[i] \in {"/", "?"} THEN JUndef
        ELSE url(SubSeq(rest, 1, slash - 1), SubSeq(rest, slash + 1, Len(rest)))
      after(rest) == matched(rest, IndexOf(rest, "/"))
  IN IF ~IsPrefix(GITHUB_PREFIX, homepage) THEN JUndef
     ELSE after(SubSeq(homepage, Len(GITHUB_PREFIX) + 1, Len(homepage)))

\* A test of the publisher that lets the reserved name through.
invalidPublisherEmptyOnly(publisher) == Len(publisher) = 0

\* publishCommand's test of pkg.namespaceOrPublisher.
invalidPublisher(publisher) ==
  Len(publisher) = 0 \/ publisher = <<"u", "n", "k", "n", "o", "w", "n">>

\* publishCommand after readManifest: the entry it prints, or the error.
\* net is what the requests give: the raw README.md, the raw CHANGELOG.md,
\* the .foxe file.
publishEntry(pkg, options, pkgPath, net) ==
  LET missing(v) == IsNullish(v) \/ Len(v.s) = 0
      fetched(version, readme, changelog) ==
        IF net.foxe = "throws" THEN Err("FetchError")
        ELSE Ok([id |-> pkg.id, publisher |-> pkg.namespaceOrPublisher.s,
                 homepage |-> pkg.homepage.s, readme |-> readme.s,
                 changelog |-> changelog.s, license |-> pkg.license.s,
                 version |-> version, foxe |-> options.foxe.s])
      withChangelog(version, readme, changelog) ==
        IF missing(changelog) THEN Err("NoChangelogUrl")
        ELSE fetched(version, readme, changelog)
      withReadme(version, readme) ==
        IF missing(readme) THEN Err("NoReadmeUrl")
        ELSE withChangelog(version, readme,
                           IF ~IsNullish(options.changelog) THEN options.changelog
                           ELSE githubRawFile(pkg.homepage.s, CHANGELOG_MD, net.changelog))
      versioned(version) ==
        IF Len(version) = 0 THEN ErrAt("MissingVersion", pkgPath)
        ELSE IF version = <<"0", ".", "0", ".", "0">> THEN ErrAt("InvalidVersion", pkgPath)
        ELSE withReadme(version,
                        IF ~IsNullish(options.readme) THEN options.readme
                        ELSE githubRawFile(pkg.homepage.s, README_MD, net.readme))
  IN IF invalidPublisher(pkg.namespaceOrPublisher.s)
       THEN ErrAt("InvalidPublisherField", pkgPath)
     ELSE IF missing(pkg.homepage) THEN ErrAt("MissingHomepage", pkgPath)
     ELSE IF missing(pkg.license) THEN ErrAt("MissingLicense", pkgPath)
     ELSE versioned(IF ~IsNullish(options.version) THEN options.version.s
                    ELSE pkg.version.s)

\* publishCommand(options) is called: without options.foxe it throws at once.
StartPublish(cwdOpt, options) ==
  /\ proc.pc = "idle"
  /\ hist.runs < MaxRuns
  /\ now' = now + 1
  /\ LET started(extensionPath, cur) ==
           IF IsNullish(options.foxe)
             THEN /\ result' = [NoResult EXCEPT !.op = "publish", !.err = "FoxeRequired",
                                                !.pkgRoot = cur.pkgRoot, !.effects = cur]
                  /\ proc' = IdleProc
                  /\ hist' = [hist EXCEPT !.runs = @ + 1, !.prev = result, !.cur = cur]
             ELSE /\ proc' = [IdleProc EXCEPT !.pc = "readManifest", !.op = "publish",
                                              !.cwdOpt = cwdOpt, !.options = options,
                                              !.extensionPath = extensionPath]
                  /\ hist' = [hist EXCEPT !.runs = @ + 1, !.cur = cur]
                  /\ UNCHANGED result
         at(extensionPath) ==
           started(extensionPath,
                   [NoEffects EXCEPT !.before = fs, !.pkgRoot = Resolve(extensionPath)])
     IN at(IF cwdOpt.t = "str" THEN cwdOpt.s ELSE cwdString)
  /\ UNCHANGED <<sep, cwd, fs>>

\* The rest of publishCommand: the checks of the manifest, the requests, and
\* the entry printed with info.
Publish ==
  /\ proc.pc = "publish"
  /\ \E net \in [readme : FetchOutcomes, changelog : FetchOutcomes,
                 foxe : {"ok", "throws"}] :
       LET ended(r) ==
             IF r.ok
               THEN Finish([Outcome(TRUE, r) EXCEPT !.value = r.v],
                           [hist.cur EXCEPT !.printed = TRUE])
               ELSE Fail(r)
       IN ended(publishEntry(proc.pkg, proc.options,
                             join(proc.extensionPath, PACKAGE_JSON), net))
  /\ UNCHANGED <<sep, cwd, fs, now>>

(***************************************************************************)
(* The environment: the package under work, the host, and what the user    *)
(* does between two commands.                                              *)
(***************************************************************************)

\* The manifest of the package: {name: "@acme/widget", main:
\* "./dist/extension.js"}, with the version, the files list and the
\* prepublish script as drawn.
PkgDoc(version, files, hook) ==
  Doc(JStr(<<"@", "a", "c", "m", "e", "/", "w", "i", "d", "g", "e", "t">>), JStr(version), JStr(<<".", "/", "d", "i", "s", "t", "/", "e", "x", "t", "e", "n", "s", "i", "o", "n", ".", "j", "s">>), JUndef, files, hook)

\* A version that makes "acme.widget-<version>" n characters long.
VersionOfLength(n) == [i \in 1..(n - Len(<<"a", "c", "m", "e", ".", "w", "i", "d", "g", "e", "t">>) - 1) |-> "9"]

Versions ==
  { <<"1", ".", "0", ".", "0">>, <<"2", "/", "0">>,
    <<"0", "/", ".", ".", "/", "o", "t", "h", "e", "r", ".", "e", "x", "t", "-", "1", ".", "0", ".", "0">>,
    <<"0", "/", ".", ".", "/", ".", ".", "/", ".", ".", "/", ".", ".", "/", ".", ".", "/", ".", ".", "/", ".", "f", "o", "x", "g", "l", "o", "v", "e", "-", "s", "t", "u", "d", "i", "o", "/", "e", "x", "t", "e", "n", "s", "i", "o", "n", "s", "/", "x">>,
    VersionOfLength(MaxDirnameLength - 1), VersionOfLength(MaxDirnameLength) }

FilesLists ==
  { JUndef,
    JList(<< <<".", ".", "/", "x">> >>),
    JList(<< DOT >>),
    JList(<< README_MD >>),
    JList(<< DIST, <<".", "/", "d", "i", "s", "t">>, <<"d", "i", "s", "t", "/">>, README_MD >>),
    JList(<< <<"n", "o", "p", "e">>, <<".", ".", "/", "x">> >>),
    JList(<< DIST, <<"d", "i", "s", "t", "/", ".", ".", "/", ".", ".", "/", "x">> >>) }

\* The manifest of an installed extension.
InstalledDoc(name, version) == Doc(JStr(name), JStr(version), JStr(<<".", "/", "d", "i", "s", "t", "/", "e", "x", "t", "e", "n", "s", "i", "o", "n", ".", "j", "s">>), JUndef, JUndef, FALSE)

Json(doc) == [t |-> "json", v |-> doc]

\* A tree: the directories and the files (path -> data) given, at time t.
Tree(dirs, files, t) ==
  [q \in dirs \cup DOMAIN files |->
     IF q \in DOMAIN files THEN FileNode(files[q], t) ELSE DirNode]

\* The package root with its files, but for the one named missing; /w/x is a
\* file next to the package root.  On a posix host dist holds a file whose
\* name has a backslash in it.
PackageTree(doc, missing, posix, t) ==
  LET all == (PkgRoot \o <<PACKAGE_JSON>> :> Json(doc))
             @@ (PkgRoot \o <<README_MD>> :> Blob(2))
             @@ (PkgRoot \o <<CHANGELOG_MD>> :> Blob(3))
             @@ (PkgRoot \o <<DIST, <<"e", "x", "t", "e", "n", "s", "i", "o", "n", ".", "j", "s">>>> :> Blob(4))
             @@ (ShellDir \o << <<"x">> >> :> Blob(5))
             @@ (IF posix THEN (PkgRoot \o <<DIST, <<"a", "\\", "b">>>> :> Blob(6)) ELSE << >>)
      kept == {q \in DOMAIN all : q # PkgRoot \o missing}
  IN Tree({<< >>, ShellDir, PkgRoot, PkgRoot \o <<DIST>>}, [q \in kept |-> all[q]], t)

\* What an extensions root holds at the start: nothing (the root does not
\* exist), two copies of acme.widget and another extension, or a copy of
\* acme.widget beside a directory without a manifest.
RootContents == {"absent", "copies", "broken", "file"}

ExtensionsTree(root, contents, t) ==
  LET old1 == root \o << <<"a", "c", "m", "e", ".", "w", "i", "d", "g", "e", "t", "-", "0", ".", "9", ".", "0">> >>
      old2 == root \o << <<"o", "l", "d">> >>
      other == root \o << <<"o", "t", "h", "e", "r", ".", "e", "x", "t", "-", "1", ".", "0", ".", "0">> >>
      broken == root \o << <<"b", "r", "o", "k", "e", "n">> >>
  IN CASE contents = "absent" -> << >>
       [] contents = "copies" ->
            Tree({SubSeq(root, 1, n) : n \in 1..Len(root)} \cup {old1, old2, other},
                 (old1 \o <<PACKAGE_JSON>> :> Json(InstalledDoc(<<"@", "a", "c", "m", "e", "/", "w", "i", "d", "g", "e", "t">>, <<"0", ".", "9", ".", "0">>)))
                 @@ (old2 \o <<PACKAGE_JSON>> :> Json(InstalledDoc(<<"@", "a", "c", "m", "e", "/", "w", "i", "d", "g", "e", "t">>, <<"0", ".", "8", ".", "0">>)))
                 @@ (other \o <<PACKAGE_JSON>> :> Json(InstalledDoc(<<"@", "o", "t", "h", "e", "r", "/", "e", "x", "t">>, <<"1", ".", "0", ".", "0">>))),
                 t)
       [] contents = "file" ->
            Tree({SubSeq(root, 1, n) : n \in 1..(Len(root) - 1)}, (root :> Blob(8)), t)
       [] contents = "namesake" ->
            Tree({SubSeq(root, 1, n) : n \in 1..Len(root)}
                   \cup {root \o << <<"a", "c", "m", "e", ".", "w", "i", "d", "g", "e", "t", "-", "p", "r", "o", "-", "1", ".", "0", ".", "0">> >>},
                 (root \o << <<"a", "c", "m", "e", ".", "w", "i", "d", "g", "e", "t", "-", "p", "r", "o", "-", "1", ".", "0", ".", "0">>, PACKAGE_JSON >>
                    :> Json(InstalledDoc(<<"@", "a", "c", "m", "e", "/", "w", "i", "d", "g", "e", "t", "-", "p", "r", "o">>, <<"1", ".", "0", ".", "0">>))),
                 t)
       [] contents = "broken" ->
            Tree({SubSeq(root, 1, n) : n \in 1..Len(root)} \cup {old1, broken},
                 (old1 \o <<PACKAGE_JSON>> :> Json(InstalledDoc(<<"@", "a", "c", "m", "e", "/", "w", "i", "d", "g", "e", "t">>, <<"0", ".", "9", ".", "0">>))),
                 t)

DefaultRoot == << <<"h">>, DOT_FOXGLOVE_STUDIO, EXTENSIONS >>

SnapAppDir == << <<"h">>, SNAP, FOXGLOVE_STUDIO, CURRENT >>

SnapRoot == SnapAppDir \o << DOT_FOXGLOVE_STUDIO, EXTENSIONS >>

HomeTree(snap, contents, t) ==
  ExtensionsTree(DefaultRoot, contents, t)
  @@ (IF snap
        THEN ExtensionsTree(SnapRoot, contents, t)
             @@ Tree({SubSeq(SnapAppDir, 1, n) : n \in 1..Len(SnapAppDir)}, << >>, t)
        ELSE << >>)
  @@ Tree({<< <<"h">> >>}, << >>, t)

\* No file of the package is missing.
Complete == << <<"-">> >>

\* The file the package root lacks.
MissingChoices == { Complete, <<CHANGELOG_MD>>, <<DIST, <<"e", "x", "t", "e", "n", "s", "i", "o", "n", ".", "j", "s">>>>, <<PACKAGE_JSON>> }

\* The JSON document null.
NullDoc == [k |-> "null"]

\* Manifests whose fields are for readManifest and publishCommand to judge:
\* each of name, version and main a string or not (absent, null, a number),
\* files absent, null or a number; and a name without or with a namespace,
\* with one publisher or another, without or with a homepage and a license.
OddManifests(hook) ==
  { Doc(name, version, main, JUndef, files, hook) :
      name \in {JStr(<<"@", "a", "c", "m", "e", "/", "w", "i", "d", "g", "e", "t">>), JUndef},
      version \in {JStr(<<"1", ".", "0", ".", "0">>), JNull},
      main \in {JStr(<<".", "/", "d", "i", "s", "t", "/", "e", "x", "t", "e", "n", "s", "i", "o", "n", ".", "j", "s">>), JOther},
      files \in {JUndef, JNull, JOther} }
  \cup
  { [Doc(name, JStr(<<"1", ".", "0", ".", "0">>), JStr(<<".", "/", "d", "i", "s", "t", "/", "e", "x", "t", "e", "n", "s", "i", "o", "n", ".", "j", "s">>), publisher, JUndef, hook)
       EXCEPT !.homepage = homepage,
              !.license = IF IsNullish(homepage) THEN JUndef ELSE JStr(<<"M", "I", "T">>)] :
      name \in {JStr(<<"w", "i", "d", "g", "e", "t">>),
                JStr(<<"@", "u", "n", "k", "n", "o", "w", "n", "/", "w", "i", "d", "g", "e", "t">>)},
      publisher \in {JUndef, JNull, JOther, JStr(<< >>), JStr(<<"!">>),
                     JStr(<<"u", "n", "k", "n", "o", "w", "n">>),
                     JStr(<<"A", "c", "m", "e", " ", "C", "o", "r", "p", "!">>)},
      homepage \in {JUndef, JStr(GITHUB_PREFIX \o <<"a", "c", "m", "e", "/", "w", "i", "d", "g", "e", "t">>),
                    JStr(<<"h", "t", "t", "p", "s", ":", "/", "/", "a", ".", "b">>)} }
  \cup
  { Doc(JStr(<<"@", "a", "c", "m", "e", "/", "w", "i", "d", "g", "e", "t">>),
        JStr(<<"1", ".", "0", ".", "0">>), JStr(<<".", ".", "/", "x">>), JUndef, files, hook) :
      files \in {JUndef, JList(<< README_MD >>)} }

\* A complete package root whose package.json holds data, before a host whose
\* extensions root holds copies.
OddPackageTree(data, posix, t) ==
  [PackageTree(NoDoc, Complete, posix, t)
     EXCEPT ![PkgRoot \o <<PACKAGE_JSON>>].data = data]
  @@ HomeTree(FALSE, "copies", t)

InitHist == [runs |-> 0, cur |-> NoEffects, prev |-> NoResult]

\* The state the one command of a process finds: a package whose packaging is
\* at stake (any version, any files list, any missing file, with or without
\* the script), or a complete package, with or without the script, before a
\* host whose extensions roots are at stake, or a package whose package.json
\* is at stake: a manifest, the document null, or text JSON.parse rejects.
Init ==
  /\ sep \in {"/", "\\"}
  /\ cwd = ShellDir
  /\ now = MOD_DATE + 1
  /\ proc = IdleProc
  /\ result = NoResult
  /\ hist = InitHist
  /\ \/ \E version \in Versions, files \in FilesLists, hook \in BOOLEAN,
           missing \in MissingChoices :
          fs = PackageTree(PkgDoc(version, files, hook), missing, sep = "/", now)
               @@ HomeTree(FALSE, "absent", now)
     \/ \E version \in Versions, contents \in RootContents, snap \in BOOLEAN,
           hook \in BOOLEAN :
          fs = PackageTree(PkgDoc(version, JUndef, hook), Complete, sep = "/", now)
               @@ HomeTree(snap, contents, now)
     \/ \E files \in {JUndef, JList(<< <<".", ".", "/", "y">>, <<"n", "o", "p", "e">> >>)},
           lacking \in {{}, {PkgRoot \o <<README_MD>>, PkgRoot \o <<CHANGELOG_MD>>}} :
          fs = [q \in DOMAIN PackageTree(NoDoc, Complete, sep = "/", now) \ lacking |->
                  IF q = PkgRoot \o <<PACKAGE_JSON>>
                    THEN FileNode(Json(PkgDoc(<<"1", ".", "0", ".", "0">>, files, FALSE)), now)
                    ELSE PackageTree(NoDoc, Complete, sep = "/", now)[q]]
               @@ HomeTree(FALSE, "absent", now)
     \/ \E version \in {<<"1", ".", "0", ".", "0">>, <<"p", "r", "o", "-", "1", ".", "0", ".", "0">>} :
          fs = PackageTree(PkgDoc(version, JUndef, FALSE), Complete, sep = "/", now)
               @@ HomeTree(FALSE, "namesake", now)
     \/ \E doc \in OddManifests(TRUE) \cup OddManifests(FALSE) :
          fs = OddPackageTree(Json(doc), sep = "/", now)
     \/ fs = OddPackageTree(Json(NullDoc), sep = "/", now)
     \/ fs = OddPackageTree(Blob(7), sep = "/", now)

\* The options of a call: cwd relative to the shell's directory or absolute,
\* and for packageCommand the output path, absent or given.
CwdOptions == { JStr(<<"p">>), JStr(<<"/", "w", "/", "p">>) }

PackagePathOptions == { JUndef, JStr(<<"/", "w", "/", "p", "/", ".", ".", "/", "o">>) }

StartPackage ==
  \E cwdOpt \in CwdOptions, packagePath \in PackagePathOptions :
    Start("package", cwdOpt, packagePath)

StartInstall == \E cwdOpt \in CwdOptions : Start("install", cwdOpt, JUndef)

\* The options of a call of publishCommand.
PublishOptionsChoices ==
  [foxe : {JUndef, JStr(<<"h", "t", "t", "p", "s", ":", "/", "/", "a", ".", "b", "/", "w", ".", "f", "o", "x", "e">>)},
   version : {JUndef, JStr(<<"0", ".", "0", ".", "0">>)},
   readme : {JUndef, JStr(<<"h", "t", "t", "p", "s", ":", "/", "/", "a", ".", "b", "/", "r">>)},
   changelog : {JUndef, JStr(<< >>)}]

StartPublishCommand ==
  \E options \in PublishOptionsChoices : StartPublish(JStr(<<"/", "w", "/", "p">>), options)

\* The steps of the command in flight.
Step ==
  \/ ReadManifest
  \/ Prepublish
  \/ Collect
  \/ WriteFoxe
  \/ InstallRemove
  \/ CopyMkdir
  \/ CopyFile

\* A process of the command line tool: one command, from start to end.
Next ==
  \/ hist.runs = 0 /\ StartPackage
  \/ hist.runs = 0 /\ StartInstall
  \/ hist.runs = 0 /\ StartPublishCommand
  \/ Step
  \/ Publish

Spec == Init /\ [][Next]_vars

(***************************************************************************)
(* Commands in sequence on one package, the user editing the version in    *)
(* between: MaxRuns commands from a complete package.                      *)
(***************************************************************************)
SeqVersions == { <<"1", ".", "0", ".", "0">>, <<"1", ".", "1", ".", "0">>, <<"2", "/", "0">> }

\* The user edits the version in package.json.
EditVersion(v) ==
  /\ proc.pc = "idle"
  /\ hist.runs < MaxRuns
  /\ LET p == PkgRoot \o <<PACKAGE_JSON>>
     IN /\ IsFileAt(fs, p)
        /\ fs[p].data.t = "json"
        /\ fs[p].data.v.version # JStr(v)
        /\ fs' = [fs EXCEPT ![p].data.v.version = JStr(v)]
  /\ UNCHANGED <<sep, cwd, now, proc, result, hist>>

InitSeq ==
  /\ sep \in {"/", "\\"}
  /\ cwd = ShellDir
  /\ now = MOD_DATE + 1
  /\ proc = IdleProc
  /\ result = NoResult
  /\ hist = InitHist
  /\ \E files \in {JUndef, JList(<< DOT >>)}, contents \in {"absent", "copies"} :
       fs = PackageTree(PkgDoc(<<"1", ".", "0", ".", "0">>, files, FALSE), Complete, sep = "/", now)
            @@ HomeTree(FALSE, contents, now)

NextSeq ==
  \/ StartPackage
  \/ StartInstall
  \/ Step
  \/ \E v \in SeqVersions : EditVersion(v)

SpecSeq == InitSeq /\ [][NextSeq]_vars

(***************************************************************************)
(* The identity functions of src/src/extensions.ts on their own: a call of *)
(* getPackageId or getPackageDirname on a package.json drawn from bounded  *)
(* sets of names, publishers and versions.                                 *)
(***************************************************************************)
MaxNameLen == 5

MaxPublisherLen == 2

\* The strings over chars of at most n characters.
BoundedStrings(chars, n) == UNION { [1..k -> chars] : k \in 0..n }

NameChars == {"@", "/", "a", "\n"}

PublisherChars == {"A", "b", "!"}

Nines(n) == [i \in 1..n |-> "9"]

\* Versions: a short one, and two that bring "<id>-<version>" to the lengths
\* around MaxDirnameLength.
IdVersions == { JStr(<<"1">>), JStr(Nines(MaxDirnameLength - 7)), JStr(Nines(MaxDirnameLength - 6)) }

InitId ==
  /\ sep = "/"
  /\ cwd = ShellDir
  /\ now = MOD_DATE + 1
  /\ fs = Tree({<< >>}, << >>, now)
  /\ result = NoResult
  /\ hist = InitHist
  /\ \E name \in BoundedStrings(NameChars, MaxNameLen),
        publisher \in {JUndef} \cup {JStr(q) : q \in BoundedStrings(PublisherChars, MaxPublisherLen)},
        version \in IdVersions :
       proc = [IdleProc EXCEPT !.pkg = Doc(JStr(name), version, JUndef, publisher, JUndef, FALSE)]

\* The call returns or throws: the outcome replaces the previous one.
Called(op, r) ==
  /\ result' = [NoResult EXCEPT !.op = op, !.ok = r.ok, !.err = r.err,
                                !.pkg = proc.pkg, !.value = r.v]
  /\ UNCHANGED <<sep, cwd, fs, now, proc, hist>>

GetPackageId ==
  /\ result.op # "getPackageId"
  /\ Called("getPackageId", getPackageId(proc.pkg))

GetPackageDirname ==
  /\ result.op # "getPackageDirname"
  /\ Called("getPackageDirname", getPackageDirname(proc.pkg))

NextId == GetPackageId \/ GetPackageDirname

SpecId == InitId /\ [][NextId]_vars

(***************************************************************************)
(* Properties.                                                             *)
(***************************************************************************)

\* A command has ended and none is in flight.
Ended == proc.pc = "idle" /\ result.op \in {"package", "install"}

\* The names of the directories right under root (a path string) that
\* listExtensions' try block reads the id out of.
NamesWithId(f, root, id) ==
  LET carries(r) == r.ok /\ r.v.id = id
      under(rootPath) ==
        { q[Len(q)] : q \in { r \in DOMAIN f : /\ Len(r) = Len(rootPath) + 1
                                                /\ IsPrefix(rootPath, r)
                                                /\ f[r].kind = "dir" } }
  IN { n \in under(Resolve(root)) : carries(scanEntry(f, root, n)) }

\* "<id>-<version>" of a manifest readManifest returned.
IdDashVersion(pkg) == pkg.id \o <<"-">> \o pkg.version.s

\* C1: two successful installs of one package identity, the second of version
\* v2, into the same extensions root leave exactly one directory in that root
\* whose manifest id is the package id, and its name is <id>-<v2>.
C1_OneDirectoryNamedForSecondVersion ==
  ( /\ Ended
    /\ hist.prev.op = "install" /\ hist.prev.ok
    /\ result.op = "install" /\ result.ok
    /\ result.pkg.id = hist.prev.pkg.id
    /\ result.rootFolder = hist.prev.rootFolder )
  => NamesWithId(fs, result.rootFolder, result.pkg.id) = { IdDashVersion(result.pkg) }

\* C2 as stated: when collect meets a files entry that lies behind a leading
\* ".." segment, the command fails with the outside-of-the-extension-directory
\* error, no archive is written and nothing is copied.
C2_EscapingEntryFailsAsOutside ==
  (Ended /\ result.effects.collected /\ result.effects.escaping)
  => /\ ~result.ok
     /\ result.err = "OutsideExtensionDir"
     /\ result.effects.archives = {}
     /\ result.effects.created = {}

\* The entries of pkg.files before the first one that lies behind a leading
\* ".." segment all exist.
EntriesBeforeEscapeExist(f, extensionPath, pkg) ==
  LET behind(segs) == Len(segs) > 0 /\ segs[1] = DOTDOT
      escapes(i) ==
        behind(SplitSegs(relative(extensionPath, join(extensionPath, pkg.files.s[i]))))
      before(first) ==
        \A i \in 1..(first - 1) :
          pathExists(f, join(extensionPath, pkg.files.s[i]), "FileOrDirectory")
  IN before(Least({ i \in 1..Len(pkg.files.s) : escapes(i) }))

\* C2, amended: when collect meets a files entry that lies behind a leading
\* ".." segment, the command fails, no archive is written and nothing is
\* copied; the error is the outside-of-the-extension-directory error when the
\* four base files exist and the entries before it exist, and otherwise the
\* missing-file or missing-path error of what is missing.
C2_EscapingEntryNeverIncluded ==
  (Ended /\ result.effects.collected /\ result.effects.escaping)
  => /\ ~result.ok
     /\ result.effects.archives = {}
     /\ result.effects.created = {}
     /\ IF result.effects.missingBase # << >>
          THEN result.err = "MissingRequiredFile"
          ELSE IF ~EntriesBeforeEscapeExist(fs, <<sep>> \o Render(result.pkgRoot), result.pkg)
            THEN result.err = "MissingRequiredPath"
            ELSE result.err = "OutsideExtensionDir"

\* An install stopped at collect by the outside-of-the-extension-directory
\* error, with every base file in place.
C2_Witness ==
  /\ Ended /\ result.op = "install"
  /\ result.effects.escaping /\ result.effects.missingBase = << >>
  /\ result.err = "OutsideExtensionDir"

\* C3: two successful runs of packageCommand on one package root with the
\* same manifest, both writing to the default output path, produce the same
\* archive: the same entries in the same order with the same dates and
\* contents.
C3_SameInputsSameArchive ==
  ( /\ Ended
    /\ hist.prev.op = "package" /\ hist.prev.ok /\ ~hist.prev.explicitOut
    /\ result.op = "package" /\ result.ok /\ ~result.explicitOut
    /\ result.pkgRoot = hist.prev.pkgRoot
    /\ result.pkg = hist.prev.pkg )
  => result.archive = hist.prev.archive

\* C4: every entry of a written archive, file or folder, is dated MOD_DATE.
C4_EveryEntryDatedMOD_DATE ==
  (Ended /\ result.op = "package" /\ result.ok)
  => \A i \in 1..Len(result.archive) : result.archive[i].date = MOD_DATE

\* The segments joined by "/".
RECURSIVE SlashJoin(_)
SlashJoin(segs) ==
  IF segs = << >> THEN << >>
  ELSE IF Len(segs) = 1 THEN segs[1]
  ELSE segs[1] \o <<"/">> \o SlashJoin(Tail(segs))

\* The name of the path q relative to the package root that was packaged,
\* with "/" between the segments.
NameBelowPackageRoot(q) ==
  LET from(n) == SlashJoin([i \in 1..(Len(result.pkgRoot) - n) |-> DOTDOT]
                           \o SubSeq(q, n + 1, Len(q)))
  IN from(CommonPrefixLen(result.pkgRoot, q, 0))

\* C5: no entry name of a written archive holds a backslash, and on a host
\* whose separator is the backslash every file entry is named by the path of
\* its file relative to the package root with "/" between the segments.
C5_EntryNamesUseSlashes ==
  (Ended /\ result.op = "package" /\ result.ok)
  => \A i \in 1..Len(result.archive) :
       /\ \A k \in 1..Len(result.archive[i].name) : result.archive[i].name[k] # "\\"
       /\ (sep = "\\" /\ ~result.archive[i].dir)
            => result.archive[i].name = NameBelowPackageRoot(result.sources[i])

\* An archive written on a host whose separator is the backslash, holding
\* dist/extension.js, from a files list that names the file and a directory
\* above it.
C5_Witness ==
  /\ Ended /\ result.op = "package" /\ result.ok
  /\ sep = "\\"
  /\ \E k \in 1..Len(result.files) : IndexOf(result.files[k], "\\") > 0
  /\ \E i \in 1..Len(result.archive) :
       result.archive[i].name = <<"d", "i", "s", "t", "/", "e", "x", "t", "e", "n", "s", "i", "o", "n", ".", "j", "s">>

\* The publisher and the unscoped name the id is made of: of a name
\* "@ns/pkg" the namespace ns and pkg, the name without its "@ns/" prefix; of
\* another name no namespace and the name itself; the publisher is the
\* manifest's if present, and otherwise the namespace.
StatedIdParts(pkg) ==
  LET name == pkg.name.s
      slash == IndexOf(name, "/")
      scoped == Len(name) >= 1 /\ name[1] = "@" /\ slash >= 3 /\ slash < Len(name)
  IN [publisher |-> IF pkg.publisher.t # "undef" THEN pkg.publisher
                    ELSE IF scoped THEN JStr(SubSeq(name, 2, slash - 1))
                    ELSE JUndef,
      unscopedName |-> IF scoped THEN SubSeq(name, slash + 1, Len(name)) ELSE name]

\* C6: getPackageId returns the normalized publisher, a dot and the unscoped
\* name, and throws the invalid-publisher error exactly when the normalized
\* publisher is the empty string.
C6_IdIsPublisherDotUnscopedName ==
  result.op = "getPackageId"
  => LET parts == StatedIdParts(result.pkg)
         norm == NormalizePublisher(parts.publisher.s)
     IN /\ parts.publisher.t = "str"
             => IF norm = << >>
                  THEN ~result.ok /\ result.err = "InvalidPublisher"
                  ELSE result.ok /\ result.value = norm \o <<".">> \o parts.unscopedName
        /\ result.err = "InvalidPublisher" => (parts.publisher.t = "str" /\ norm = << >>)

\* C7: a command on a manifest whose "<id>-<version>" has MaxDirnameLength
\* characters or more fails, having written no archive and removed and copied
\* nothing.
C7_LongDirnameFailsEveryCommand ==
  ( /\ Ended
    /\ result.pkg.version.t = "str"
    /\ Len(IdDashVersion(result.pkg)) >= MaxDirnameLength )
  => /\ ~result.ok
     /\ result.effects.archives = {}
     /\ result.effects.removed = {}
     /\ result.effects.created = {}

HasBadSibling(f, root) ==
  LET under(rootPath) ==
        \E r \in DOMAIN f :
          /\ Len(r) = Len(rootPath) + 1
          /\ IsPrefix(rootPath, r)
          /\ f[r].kind = "dir"
          /\ ~scanEntry(f, root, r[Len(r)]).ok
  IN under(Resolve(root))

\* C9: an install into an extensions root that holds a directory without a
\* readable manifest does not fail on it.
C9_BadSiblingNeverFailsInstall ==
  ( /\ Ended /\ result.op = "install"
    /\ result.effects.collected
    /\ Len(IdDashVersion(result.pkg)) < MaxDirnameLength
    /\ HasBadSibling(fs, targetRootFolder(fs)) )
  => result.err # "TypeError"

\* The name of the directory right under the root that install copies into.
DestChild(rootFolder, dirName) ==
  SplitSegs(relative(rootFolder, join(rootFolder, dirName)))[1]

\* C10: once removeExtensionsById has returned, no directory right under the
\* root carries the id; while install copies, and after it, the only such
\* directory is the one install copies into.
C10_NoOldCopyBesideTheNew ==
  /\ proc.pc = "mkdir" => NamesWithId(fs, proc.rootFolder, proc.pkg.id) = {}
  /\ proc.pc = "copy"
       => NamesWithId(fs, proc.rootFolder, proc.pkg.id)
            \subseteq {DestChild(proc.rootFolder, proc.dirName)}
  /\ (Ended /\ result.op = "install" /\ result.ok)
       => NamesWithId(fs, result.rootFolder, result.pkg.id)
            \subseteq {DestChild(result.rootFolder, result.dirName)}

\* An install in the middle of copying the new version, after
\* removeExtensionsById removed two directories of other versions.
C10_Witness ==
  /\ proc.pc = "copy"
  /\ proc.i > 1
  /\ Cardinality({ r \in hist.cur.removed : Len(r) = Len(Resolve(proc.rootFolder)) + 1 }) = 2

\* The part of the file system f at and below the path p.
Subtree(f, p) == [q \in {r \in DOMAIN f : IsPrefix(p, r)} |-> f[q]]

\* The extensions roots of a host, as install names them.
ExtensionsRoots ==
  { join(join(homedir, DOT_FOXGLOVE_STUDIO), EXTENSIONS),
    join(join(join(join(join(homedir, SNAP), FOXGLOVE_STUDIO), CURRENT),
              DOT_FOXGLOVE_STUDIO), EXTENSIONS) }

\* The directories right under root (a path string) of f whose manifest gives
\* an id, and one other than id.
ExtensionsOfOtherIds(f, root, id) ==
  LET differs(r) == r.ok /\ r.v.id # id
      under(rootPath) ==
        { q \in DOMAIN f : /\ Len(q) = Len(rootPath) + 1
                           /\ IsPrefix(rootPath, q)
                           /\ f[q].kind = "dir" }
  IN { q \in under(Resolve(root)) : differs(scanEntry(f, root, q[Len(q)])) }

\* C11: when an install has ended, every directory of an extensions root
\* that held an extension of another id when the command started still exists
\* and holds what it held.
C11_OtherExtensionsUnchanged ==
  (Ended /\ result.op = "install" /\ result.pkg.id # << >>)
  => \A root \in ExtensionsRoots :
       \A d \in ExtensionsOfOtherIds(result.effects.before, root, result.pkg.id) :
         Subtree(fs, d) = Subtree(result.effects.before, d)

\* C12: a command whose prepublish child exited with a code other than 0, was
\* killed (exit code null) or could not be started has failed with the
\* error of the script, and has not run collect, written an archive, removed
\* an installed extension or copied a file.
C12_FailedHookStopsCommand ==
  (Ended /\ result.effects.hookExit \in {"1", "null", "error"})
  => /\ ~result.ok
     /\ result.err \in {"HookFailed", "HookSpawnError"}
     /\ ~result.effects.collected
     /\ result.effects.archives = {}
     /\ result.effects.removed = {}
     /\ result.effects.created = {}

\* An install, into a root that holds copies of the extension, that ended
\* when its prepublish child was killed.
C12_Witness ==
  /\ Ended /\ result.op = "install"
  /\ result.effects.hookExit = "null"
  /\ result.err = "HookFailed"
  /\ NamesWithId(fs, targetRootFolder(fs), result.pkg.id) # {}

\* The steps of a command that come after await prepublish.
AfterPrepublish == {"collect", "writeFoxe", "install", "mkdir", "copy"}

\* C13: a command is past await prepublish only if the script is not declared
\* and no child was spawned, or the child exited with code 0; and a command
\* that has ended after readManifest returned either spawned no child (no
\* script is declared, and the error, if any, is not the script's), or its
\* child exited with code 0 (the error, if any, is not the script's), or exited
\* otherwise (the error is the script's and carries the code, "<null>" for
\* null), or could not be started (the error is the spawn error).
C13_PrepublishSettlesByExit ==
  /\ proc.pc \in AfterPrepublish
       => hist.cur.hookExit = (IF proc.pkg.hook THEN "0" ELSE "none")
  /\ (Ended /\ result.pkg # NoDoc)
       => /\ result.effects.hookExit # "none" <=> result.pkg.hook
          /\ result.effects.hookExit \in {"none", "0"}
               => result.err \notin {"HookFailed", "HookSpawnError"}
          /\ result.effects.hookExit = "1"
               => ~result.ok /\ result.err = "HookFailed" /\ result.at = <<"1">>
          /\ result.effects.hookExit = "null"
               => /\ ~result.ok /\ result.err = "HookFailed"
                  /\ result.at = <<"<", "n", "u", "l", "l", ">">>
          /\ result.effects.hookExit = "error"
               => ~result.ok /\ result.err = "HookSpawnError"

\* A packageCommand that ended when its prepublish child exited with code 1.
C13_Witness ==
  /\ Ended /\ result.op = "package"
  /\ result.pkg.hook
  /\ result.effects.hookExit = "1"
  /\ result.at = <<"1">>

\* The validation errors of readManifest: a missing or malformed field, an
\* unknown or invalid publisher.
ManifestErrors ==
  {"MissingName", "MissingVersion", "MissingMain", "InvalidFiles",
   "UnknownPublisher", "MissingPublisher", "InvalidPublisher"}

\* The validation errors.
ValidationErrors == ManifestErrors \cup {"NameTooLong", "OutsideExtensionDir"}

FieldOf(doc, field) == IF doc.k = "null" THEN JUndef ELSE doc[field]

\* The field error the order name, version, main, files gives for a parsed
\* package.json, or "none".
StatedFieldError(doc) ==
  IF FieldOf(doc, "name").t # "str" THEN "MissingName"
  ELSE IF FieldOf(doc, "version").t # "str" THEN "MissingVersion"
  ELSE IF FieldOf(doc, "main").t # "str" THEN "MissingMain"
  ELSE IF FieldOf(doc, "files").t \notin {"undef", "null", "list"} THEN "InvalidFiles"
  ELSE "none"

\* C15: a command on a package root whose package.json is missing or is not
\* JSON has failed with the load error naming package.json; on one whose
\* package.json parses, if name, version or main is no string or files is
\* neither absent nor a list, it has failed with the field error of the first
\* such field in the order name, version, main, files, naming package.json;
\* and otherwise with neither of these errors.
C15_FirstOffendingFieldReported ==
  Ended
  => LET judged(before, p) ==
           IF ~IsFileAt(before, p) \/ before[p].data.t # "json"
             THEN /\ ~result.ok /\ result.err = "FailedToLoad"
                  /\ Resolve(result.at) = p
             ELSE IF StatedFieldError(before[p].data.v) # "none"
               THEN /\ ~result.ok
                    /\ result.err = StatedFieldError(before[p].data.v)
                    /\ Resolve(result.at) = p
               ELSE result.err \notin {"FailedToLoad", "MissingName", "MissingVersion",
                                       "MissingMain", "InvalidFiles"}
     IN judged(result.effects.before, result.pkgRoot \o <<PACKAGE_JSON>>)

\* A command of the given kinds has ended and none is in flight.
EndedOf(ops) == proc.pc = "idle" /\ result.op \in ops

\* The publisher readManifest settles on for a parsed package.json whose name
\* is a string: the publisher field, or else the namespace of the name.
EffectivePublisher(doc) ==
  IF ~IsNullish(doc.publisher) THEN doc.publisher
  ELSE parsePackageName(doc.name.s).namespace

\* Whether the package.json at p in f is a manifest whose effective publisher
\* is one of the given values.
PublisherIsOneOf(f, p, values) ==
  /\ IsFileAt(f, p)
  /\ f[p].data.t = "json"
  /\ f[p].data.v.k = "obj"
  /\ f[p].data.v.name.t = "str"
  /\ EffectivePublisher(f[p].data.v) \in values

UNKNOWN == <<"u", "n", "k", "n", "o", "w", "n">>

\* C16 as stated: an install or a publish on a manifest whose effective
\* publisher is absent, empty or "unknown" has failed, having run no
\* prepublish child, removed and copied nothing and printed no entry.
C16_ReservedPublisherStopsInstallAndPublish ==
  ( /\ EndedOf({"install", "publish"})
    /\ PublisherIsOneOf(result.effects.before, result.pkgRoot \o <<PACKAGE_JSON>>,
                        {JUndef, JNull, JStr(<< >>), JStr(UNKNOWN)}) )
  => /\ ~result.ok
     /\ result.effects.hookExit = "none"
     /\ result.effects.removed = {}
     /\ result.effects.created = {}
     /\ ~result.effects.printed

\* C16, amended: an install or a publish on a manifest whose effective
\* publisher is absent or empty has failed, having run no prepublish child,
\* removed and copied nothing and printed no entry, with readManifest's
\* unknown-publisher error if the fields are in order; a publish on a manifest
\* whose effective publisher is "unknown" has failed likewise, with
\* publishCommand's invalid-publisher error if the fields are in order and the
\* .foxe URL is given; an install on such a manifest is not stopped for its
\* publisher: readManifest returns the manifest and the id starts "unknown.".
C16_PublishStopsReservedInstallStopsEmpty ==
  LET untouched ==
        /\ ~result.ok
        /\ result.effects.hookExit = "none"
        /\ result.effects.removed = {}
        /\ result.effects.created = {}
        /\ ~result.effects.printed
      inOrder(f, p) == StatedFieldError(f[p].data.v) = "none"
      judged(f, p) ==
        /\ ( /\ EndedOf({"install", "publish"})
             /\ PublisherIsOneOf(f, p, {JUndef, JNull, JStr(<< >>)}) )
           => /\ untouched
              /\ (inOrder(f, p) /\ result.err # "FoxeRequired")
                   => result.err = "UnknownPublisher"
        /\ (EndedOf({"publish"}) /\ PublisherIsOneOf(f, p, {JStr(UNKNOWN)}))
           => /\ untouched
              /\ (inOrder(f, p) /\ result.err # "FoxeRequired")
                   => result.err = "InvalidPublisherField"
        /\ ( /\ EndedOf({"install"})
             /\ PublisherIsOneOf(f, p, {JStr(UNKNOWN)})
             /\ inOrder(f, p) )
           => /\ result.pkg.namespaceOrPublisher = JStr(UNKNOWN)
              /\ IsPrefix(UNKNOWN \o <<".">>, result.pkg.id)
  IN judged(result.effects.before, result.pkgRoot \o <<PACKAGE_JSON>>)

\* A publish, with the .foxe URL given, of a manifest that has a homepage and
\* a license and whose publisher is "unknown", stopped by publishCommand's
\* invalid-publisher error.
C16_Witness ==
  /\ EndedOf({"publish"})
  /\ result.err = "InvalidPublisherField"
  /\ result.pkg.namespaceOrPublisher = JStr(UNKNOWN)
  /\ ~IsNullish(result.pkg.homepage) /\ ~IsNullish(result.pkg.license)

\* C17: an install that came to select a root selected the snap root if the
\* snap application directory existed when the command started, and the
\* default root otherwise; what it removed and what it created or wrote lies
\* at or below the selected root, or is that root's ancestor; and the root not
\* selected holds what it held.
C17_OnlySelectedRootTouched ==
  (EndedOf({"install"}) /\ result.rootFolder # << >>)
  => LET touched(selected, other) ==
           /\ Resolve(result.rootFolder) = selected
           /\ \A q \in result.effects.removed \cup result.effects.created :
                IsPrefix(selected, q) \/ IsPrefix(q, selected)
           /\ Subtree(fs, other) = Subtree(result.effects.before, other)
     IN IF IsDirAt(result.effects.before, SnapAppDir)
          THEN touched(SnapRoot, DefaultRoot)
          ELSE touched(DefaultRoot, SnapRoot)

\* The destination of the i-th collected file of the install that ended.
TargetOf(i) == Resolve(join(join(result.rootFolder, result.dirName), result.files[i]))

\* The collected files of the install that ended that exist at the destination.
CopiedFiles == { i \in 1..Len(result.files) : Exists(fs, TargetOf(i)) }

\* C18 as stated: a copy that fails makes installCommand fail, no later file
\* is copied, and the destination directory does not hold only part of the
\* collected files.
C18_FailedCopyLeavesNoPartialInstall ==
  /\ proc.pc = "copy" => hist.cur.failedAt = 0
  /\ (Ended /\ result.op = "install" /\ result.effects.failedAt # 0)
       => /\ ~result.ok
          /\ result.err = "CopyError"
          /\ CopiedFiles \in {{}, 1..Len(result.files)}

\* C18, amended: a copy that fails makes installCommand fail with the copy
\* error of that file and no later copy is started; the files copied before
\* it stay in the destination directory, and whatever the command created is
\* the destination directory, a directory above it, or at or below the
\* destination of one of those earlier files.
C18_FailedCopyStopsInstallKeepingEarlierFiles ==
  /\ proc.pc = "copy" => hist.cur.failedAt = 0
  /\ (Ended /\ result.op = "install" /\ result.effects.failedAt # 0)
       => /\ ~result.ok
          /\ result.err = "CopyError"
          /\ result.at = join(join(result.rootFolder, result.dirName),
                              result.files[result.effects.failedAt])
          /\ 1..(result.effects.failedAt - 1) \subseteq CopiedFiles
          /\ \A q \in result.effects.created :
               \/ IsPrefix(q, Resolve(join(result.rootFolder, result.dirName)))
               \/ \E i \in 1..(result.effects.failedAt - 1) : IsPrefix(TargetOf(i), q)

\* An install whose third copy failed on a clean root: the two files copied
\* before it are in the destination directory and the later ones are not.
C18_Witness ==
  /\ Ended /\ result.op = "install"
  /\ result.effects.failedAt = 3
  /\ result.effects.removed = {}
  /\ CopiedFiles = {1, 2}

\* The install that ended retried an install of the same package into the same
\* root that had failed while copying.
RetriedFailedCopy ==
  /\ Ended /\ result.op = "install"
  /\ hist.prev.op = "install" /\ hist.prev.effects.failedAt # 0
  /\ result.pkg.id = hist.prev.pkg.id
  /\ result.rootFolder = hist.prev.rootFolder

\* The destination directory of the install that ended holds exactly the
\* collected files, with the contents they have in the package directory.
DestinationHoldsCollectedFiles ==
  LET dest == Resolve(join(result.rootFolder, result.dirName))
      source(i) == NormAbs(result.pkgRoot \o SplitSegs(result.files[i]))
      below(p) == { SubSeq(q, Len(p) + 1, Len(q)) : q \in {r \in DOMAIN fs : IsPrefix(p, r)} }
      expected == UNION { { SubSeq(TargetOf(i), Len(dest) + 1, Len(TargetOf(i))) \o r :
                              r \in below(source(i)) } : i \in 1..Len(result.files) }
      same(i, r) ==
        /\ fs[TargetOf(i) \o r].kind = fs[source(i) \o r].kind
        /\ fs[source(i) \o r].kind = "file"
             => fs[TargetOf(i) \o r].data = fs[source(i) \o r].data
  IN /\ below(dest) \ {<< >>} = expected \ {<< >>}
     /\ \A i \in 1..Len(result.files) : \A r \in below(source(i)) : same(i, r)

\* The install that ended met no failure of its environment: its hook, if
\* any, exited with 0 and none of its copies failed.
RanUndisturbed ==
  /\ result.effects.hookExit \in {"none", "0"}
  /\ result.effects.failedAt = 0

\* C19: an install that retries one that failed while copying, of the same or
\* another version, succeeds unless its own hook or copy fails, and a
\* successful one leaves the root as one install on a clean root does: one
\* directory for the id, holding exactly the collected files, and nothing
\* else that either command created; and a packageCommand run again leaves
\* at the archive path the archive it wrote.
C19_RetryLeavesCleanInstall ==
  /\ (RetriedFailedCopy /\ RanUndisturbed) => result.ok
  /\ (RetriedFailedCopy /\ result.ok)
       => /\ NamesWithId(fs, result.rootFolder, result.pkg.id)
               = {DestChild(result.rootFolder, result.dirName)}
          /\ DestinationHoldsCollectedFiles
          /\ \A q \in (hist.prev.effects.created \cup result.effects.created) \cap DOMAIN fs :
               \/ IsPrefix(q, Resolve(join(result.rootFolder, result.dirName)))
               \/ IsPrefix(Resolve(join(result.rootFolder, result.dirName)), q)
  /\ ( /\ Ended /\ result.op = "package" /\ result.ok
       /\ hist.prev.op = "package" /\ hist.prev.ok
       /\ result.out = hist.prev.out )
       => /\ IsFileAt(fs, result.out)
          /\ fs[result.out].data = [t |-> "foxe", v |-> result.archive]


\* C20: when a stream fails while the archive is produced, the write stream
\* or a read stream feeding it, the promise of writeFoxe rejects and
\* packageCommand fails with the archive-write error.
C20_StreamErrorRejects ==
  (Ended /\ result.op = "package" /\ result.effects.stream # "none")
  => /\ ~result.ok
     /\ result.err = "ArchiveWriteError"

\* C21: listExtensions returns the empty list, and no error, for a root that
\* is absent or is not a directory; and an install that finds no extensions
\* root removes nothing, creates the root and the destination directory, and
\* fails at most at a copy.
C21_FirstInstallCreatesRoot ==
  /\ (proc.pc = "install" /\ ~pathExists(fs, targetRootFolder(fs), "Directory"))
       => listExtensions(fs, targetRootFolder(fs)) = Ok(<< >>)
  /\ ( /\ Ended /\ result.op = "install"
       /\ result.rootFolder # << >>
       /\ Resolve(result.rootFolder) \notin DOMAIN result.effects.before )
       => /\ result.ok \/ result.err = "CopyError"
          /\ result.effects.removed = {}
          /\ IsDirAt(fs, Resolve(result.rootFolder))
          /\ IsDirAt(fs, Resolve(join(result.rootFolder, result.dirName)))

\* The default place of the archive of the package that was packaged: the
\* file "<id>-<version>.foxe" in the package root.
DefaultArchivePath ==
  NormAbs(result.pkgRoot \o SplitSegs(IdDashVersion(result.pkg) \o FOXE_EXT))

BeginsWithDotDot(s) == Len(SplitSegs(s)) > 0 /\ SplitSegs(s)[1] = DOTDOT

\* C23: no path collect returned begins with a ".." segment, and every file
\* entry of an archive that was written was read from a file at or below the
\* package root.
C23_CollectedPathsInsidePackageRoot ==
  /\ proc.pc \in {"writeFoxe", "install", "mkdir", "copy"}
       => \A i \in 1..Len(proc.files) : ~BeginsWithDotDot(proc.files[i])
  /\ (Ended /\ result.op = "package" /\ result.ok)
       => \A i \in 1..Len(result.sources) :
            ~result.archive[i].dir => IsPrefix(result.pkgRoot, result.sources[i])

\* C24: the list collect returned is in ascending order and holds no path
\* twice.
C24_CollectedSortedWithoutDuplicates ==
  proc.pc \in {"writeFoxe", "install", "mkdir", "copy"}
  => \A i, j \in 1..Len(proc.files) : i < j => StrLess(proc.files[i], proc.files[j])

\* C25: the directory an install copies into is the child "<id>-<version>" of
\* the extensions root, and every file the install wrote lies in it.
C25_InstallWritesInsideOwnDirectory ==
  (Ended /\ result.op = "install" /\ result.rootFolder # << >>)
  => /\ Resolve(join(result.rootFolder, result.dirName))
          = Resolve(result.rootFolder) \o <<IdDashVersion(result.pkg)>>
     /\ \A q \in result.effects.created \cap DOMAIN fs :
          fs[q].kind = "file"
            => IsPrefix(Resolve(result.rootFolder) \o <<IdDashVersion(result.pkg)>>, q)

\* The manifest pkg has the shape readManifest is to guarantee.
ValidatedManifest(pkg) ==
  LET effective(namespace) ==
        IF ~IsNullish(pkg.publisher) THEN pkg.publisher ELSE namespace
  IN /\ pkg.name.t = "str" /\ pkg.version.t = "str" /\ pkg.main.t = "str"
     /\ IsNullish(pkg.files) \/ pkg.files.t = "list"
     /\ pkg.namespaceOrPublisher.t = "str" /\ Len(pkg.namespaceOrPublisher.s) > 0
     /\ pkg.namespaceOrPublisher = effective(parsePackageName(pkg.name.s).namespace)
     /\ getPackageId(pkg) = Ok(pkg.id)

\* C26: a manifest readManifest returned is validated, and when readManifest
\* fails it fails with the load error, a field error or a publisher error.
C26_ManifestValidatedOrDocumentedError ==
  /\ proc.pc \notin {"idle", "readManifest"} => ValidatedManifest(proc.pkg)
  /\ (Ended /\ ~result.ok /\ result.pkg = NoDoc)
       => result.err \in ManifestErrors \cup {"FailedToLoad"}

\* The regular files at or below the collected paths of the packageCommand
\* that ended, the archive it wrote aside unless it was there before.
ReachableFiles ==
  { q \in DOMAIN fs :
      /\ fs[q].kind = "file"
      /\ q = result.out => q \in DOMAIN result.effects.before
      /\ \E i \in 1..Len(result.files) :
           IsPrefix(NormAbs(result.pkgRoot \o SplitSegs(result.files[i])), q) }

\* C27: the file entries of a written archive are the regular files at or
\* below the collected paths, each once, each named by its path relative to
\* the package root.
C27_ArchiveHoldsReachableFiles ==
  (Ended /\ result.op = "package" /\ result.ok)
  => LET entries == { i \in 1..Len(result.archive) : ~result.archive[i].dir }
     IN /\ { result.sources[i] : i \in entries } = ReachableFiles
        /\ Cardinality(entries) = Cardinality(ReachableFiles)
        /\ \A i \in entries : result.archive[i].name = NameBelowPackageRoot(result.sources[i])

\* What the collect of the command that ended is to throw, probing
\* package.json, README.md, CHANGELOG.md and main as regular files, then each
\* entry of files in turn, for containment and then for existence, or else
\* the dist directory: the error of the first path that fails, or none.
FirstCollectFailure ==
  LET below(name) == NormAbs(result.pkgRoot \o SplitSegs(name))
      base == << below(PACKAGE_JSON), below(README_MD), below(CHANGELOG_MD),
                 below(result.pkg.main.s) >>
      escapes(p) == ~IsPrefix(result.pkgRoot, p)
      entry(n) == below(result.pkg.files.s[n])
      ofEntry(p) ==
        [err |-> IF escapes(p) THEN "OutsideExtensionDir" ELSE "MissingRequiredPath",
         at |-> p]
      ofEntries(failing) ==
        IF failing = {} THEN [err |-> "none", at |-> << >>]
        ELSE ofEntry(entry(Least(failing)))
      ofBase(failing) ==
        IF failing # {} THEN [err |-> "MissingRequiredFile", at |-> base[Least(failing)]]
        ELSE IF ~IsNullish(result.pkg.files)
          THEN ofEntries({ n \in 1..Len(result.pkg.files.s) :
                             escapes(entry(n)) \/ entry(n) \notin DOMAIN fs })
          ELSE IF ~IsDirAt(fs, below(DIST))
            THEN [err |-> "MissingRequiredDirectory", at |-> below(DIST)]
            ELSE [err |-> "none", at |-> << >>]
  IN ofBase({ n \in 1..4 : ~IsFileAt(fs, base[n]) })

CollectErrors ==
  {"MissingRequiredFile", "OutsideExtensionDir", "MissingRequiredPath",
   "MissingRequiredDirectory"}

\* C28: when collect fails, the error is that of the first path that fails in
\* the order package.json, README.md, CHANGELOG.md, main, then the entries of
\* files as declared, each for containment before existence; and collect
\* fails whenever one of them fails.
C28_FirstFailingPathReported ==
  (Ended /\ result.effects.collected /\ result.pkg # NoDoc)
  => /\ result.err \in CollectErrors
          => /\ result.err = FirstCollectFailure.err
             /\ Resolve(result.at) = FirstCollectFailure.at
     /\ FirstCollectFailure.err # "none" => result.err = FirstCollectFailure.err

\* A command failed at collect on a package root that lacks README.md and
\* CHANGELOG.md and whose files entries both fail: the error names README.md.
C28_Witness ==
  /\ Ended /\ result.effects.collected
  /\ result.err = "MissingRequiredFile"
  /\ Resolve(result.at) = PkgRoot \o <<README_MD>>
  /\ PkgRoot \o <<CHANGELOG_MD>> \notin DOMAIN fs
  /\ ~IsNullish(result.pkg.files)

\* C29: when installCommand has ended, with or without an error, the working
\* directory of the process is the one it had when the command was called.
C29_InstallKeepsWorkingDirectory ==
  (Ended /\ result.op = "install") => cwd = ShellDir

\* C30: no extension that was installed in the root under another id has the
\* directory name getPackageDirname gives the package being installed, and
\* the install creates and changes nothing in the directory of such an
\* extension.
C30_OtherIdOtherDirectory ==
  (Ended /\ result.op = "install" /\ result.rootFolder # << >>)
  => LET root == Resolve(result.rootFolder)
         before == result.effects.before
         other(p) ==
           /\ Len(p) = Len(root) + 2 /\ IsPrefix(root, p) /\ p[Len(p)] = PACKAGE_JSON
           /\ before[p].kind = "file" /\ before[p].data.t = "json"
           /\ before[p].data.v.k = "obj"
           /\ getPackageId(before[p].data.v).ok
           /\ getPackageId(before[p].data.v).v # result.pkg.id
           /\ getPackageDirname(before[p].data.v) = Ok(p[Len(root) + 1])
     IN \A p \in DOMAIN before :
          other(p) => /\ getPackageDirname(before[p].data.v) # Ok(result.dirName)
                      /\ p \in DOMAIN fs /\ fs[p] = before[p]

===========================================================================
